---- MODULE Spec2Model ----
(***************************************************************************)
(* A model of the workflow-diagram editor (React Flow application).        *)
(*                                                                         *)
(* The repository holds three generations of the same component:           *)
(*   "current" : src/src/App.tsx lines 1..1720 (Jump refers to its Land by *)
(*               landId, templates are nodes at position (-1,-1));         *)
(*   "label"   : src/unnamed/part_000 (Jump and Land are paired by an      *)
(*               equal label string);                                      *)
(*   "first"   : src/src/App.tsx lines 1722..2391 (process nodes only).    *)
(* The state variable `variant` says which generation is running; it is    *)
(* fixed by Init and never changes.                                        *)
(*                                                                         *)
(* Conventions                                                             *)
(*   - ids and names are strings; "" stands for every falsy JavaScript     *)
(*     value of a string field (undefined, null, '').                      *)
(*   - a process ("box") node keeps data.label and data.def.ad separately, *)
(*     as the source does.                                                 *)
(*   - crypto.randomUUID() is a value that occurs nowhere in the state.    *)
(***************************************************************************)
EXTENDS Integers, Sequences, FiniteSets, TLC

(***************************************************************************)
(* Bounds of the model                                                     *)
(***************************************************************************)
\* at most this many nodes are created by add operations
MaxNodes == 3
\* at most this many Jump/Land nodes are added in the colour specification
MaxJumpLand == 10
\* at most this many file reads are in flight at once
MaxPending == 1
\* the label computation is tried on the first 0..MaxLabelPrefix labels
MaxLabelPrefix == 28
\* imported documents hold at most this many node entries / edge entries
MaxFileNodes == 3
MaxFileEdges == 3
\* documents of the grid specification hold at most this many node entries
MaxGridNodes == 6
\* at most this many edges are made by connecting
MaxEdges == 2
\* at most this many nodes are added in the edit specification
MaxEditNodes == 2
\* reads in flight at once in SpecRace
MaxRacing == 2
\* candidate indices whose labels are compared with one another
MaxLabelIndex == 730

(***************************************************************************)
(* Program constants                                                       *)
(***************************************************************************)
\* JUMP_LAND_COLORS.length
PaletteSize == 8

Alphabet ==
  <<"A","B","C","D","E","F","G","H","I","J","K","L","M",
    "N","O","P","Q","R","S","T","U","V","W","X","Y","Z">>

Variants == {"current", "label", "first"}

(***************************************************************************)
(* Generic helpers                                                         *)
(***************************************************************************)
Min(S) == CHOOSE m \in S : \A k \in S : m <= k

(***************************************************************************)
(* State                                                                   *)
(***************************************************************************)
VARIABLES
  variant,              \* which generation of the component runs
  nodes,                \* useNodesState: sequence of node records
  edges,                \* useEdgesState: sequence of edge records
  contextMenu,          \* [visible, flowX, flowY]
  token,                \* TRUE iff the URL carries ?t=...
  bypassAuth,
  isLoading,
  error,
  fetchState,           \* position of the mount effect: "mount","pending","done"
  isModalOpen,
  editingNodeId,
  formAd,
  formAciklama,
  isJumpLandModalOpen,
  jumpLandColorIndex,
  selectedLandId,
  editingNodeType,
  jumpLandLabel,
  pendingReads,         \* FileReader reads in flight: sequence of documents
  lastImport,           \* the document and outcome of the last completed read
  labelInput,           \* input of the last label computation
  labelResult,          \* its result
  pendingSaves,         \* POST requests of saveToBackend awaiting a response
  lastOp                \* the handler that ran last and its argument

graphVars  == <<nodes, edges>>
menuVars   == <<contextMenu>>
loadVars   == <<token, bypassAuth, isLoading, error, fetchState, pendingSaves>>
boxModalVars == <<isModalOpen, formAd, formAciklama>>
jlModalVars  == <<isJumpLandModalOpen, jumpLandColorIndex, selectedLandId,
                  editingNodeType, jumpLandLabel>>
importVars == <<pendingReads, lastImport>>
labelVars  == <<labelInput, labelResult>>

vars == <<variant, nodes, edges, contextMenu, token, bypassAuth, isLoading,
          error, fetchState, isModalOpen, editingNodeId, formAd, formAciklama,
          isJumpLandModalOpen, jumpLandColorIndex, selectedLandId,
          editingNodeType, jumpLandLabel, pendingReads, lastImport,
          labelInput, labelResult, pendingSaves, lastOp>>

(***************************************************************************)
(* Node and edge records                                                   *)
(***************************************************************************)
\* Node<BoxData>: label is data.label, ad is data.def.ad, aciklama is
\* data.def.aciklama
NewBox(id, x, y, label, ad, aciklama) ==
  [id |-> id, type |-> "box", x |-> x, y |-> y, label |-> label, ad |-> ad,
   aciklama |-> aciklama, landId |-> "", colorIndex |-> 0]

\* Node<JumpData>
NewJump(id, x, y, label, landId, colorIndex) ==
  [id |-> id, type |-> "jump", x |-> x, y |-> y, label |-> label, ad |-> "",
   aciklama |-> "", landId |-> landId, colorIndex |-> colorIndex]

\* Node<LandData>
NewLand(id, x, y, label, colorIndex) ==
  [id |-> id, type |-> "land", x |-> x, y |-> y, label |-> label, ad |-> "",
   aciklama |-> "", landId |-> "", colorIndex |-> colorIndex]

\* the record kept in lastOp
Op(name, id) == [op |-> name, id |-> id, target |-> ""]

\* the record kept for a connection from source to target
OpConnect(source, target) ==
  [op |-> "onConnect", id |-> source, target |-> target]

NewEdge(id, source, target) == [id |-> id, source |-> source, target |-> target]

IsJumpLand(n) == n.type = "jump" \/ n.type = "land"

JumpLandNodes(nds) == SelectSeq(nds, IsJumpLand)

(***************************************************************************)
(* Fresh identifiers: crypto.randomUUID()                                  *)
(***************************************************************************)
IdsInUse ==
  {nodes[i].id : i \in 1..Len(nodes)} \cup
  {nodes[i].landId : i \in 1..Len(nodes)} \cup
  {edges[i].id : i \in 1..Len(edges)} \cup
  {edges[i].source : i \in 1..Len(edges)} \cup
  {edges[i].target : i \in 1..Len(edges)} \cup
  {editingNodeId, selectedLandId}

Uuid(k) == "u" \o ToString(k)

\* the k-th (k >= 1) identifier that occurs nowhere in `used`
RECURSIVE NthFresh(_, _, _)
NthFresh(used, k, from) ==
  IF Uuid(from) \in used THEN NthFresh(used, k, from + 1)
  ELSE IF k = 1 THEN Uuid(from)
  ELSE NthFresh(used, k - 1, from + 1)

randomUUID(used, k) == NthFresh(used, k, 1)

(***************************************************************************)
(* Derived lists                                                           *)
(***************************************************************************)
\* the page that renders <ReactFlow>: none of the three early returns
isUnauthorized == ~token /\ ~bypassAuth

MainScreen ==
  /\ ~(variant = "current" /\ isUnauthorized /\ Len(nodes) = 0)
  /\ ~(variant # "first" /\ isLoading)
  /\ ~(variant # "first" /\ error)

IsTemplateNode(n) == n.x = -1 /\ n.y = -1 /\ n.type = "box"

TemplateOf(n) ==
  [id |-> n.id,
   ad |-> IF n.ad # "" THEN n.ad ELSE n.label,
   aciklama |-> n.aciklama]

\* the filter stage of the templates memo
templateNodes == SelectSeq(nodes, IsTemplateNode)

templates == [i \in 1..Len(templateNodes) |-> TemplateOf(templateNodes[i])]

\* a filter with strict comparisons
IsVisibleNode_Strict(n) == n.x > 0 /\ n.y > 0

IsVisibleNode(n) == n.x >= 0 /\ n.y >= 0

visibleNodes == SelectSeq(nodes, IsVisibleNode)

(***************************************************************************)
(* Context menu                                                            *)
(***************************************************************************)
onPaneContextMenu(fx, fy) ==
  /\ MainScreen
  /\ ~isModalOpen
  /\ ~isJumpLandModalOpen
  /\ contextMenu' = [visible |-> TRUE, flowX |-> fx, flowY |-> fy]
  /\ lastOp' = Op("onPaneContextMenu", "")
  /\ UNCHANGED <<variant, graphVars, loadVars, boxModalVars, editingNodeId,
                 jlModalVars, importVars, labelVars>>

closedMenu == [contextMenu EXCEPT !.visible = FALSE]

(***************************************************************************)
(* Labels and colours of Jump/Land nodes                                   *)
(***************************************************************************)
\* the loop without the "- 1" of bijective base 26
RECURSIVE LabelLoop_NoBorrow(_, _)
LabelLoop_NoBorrow(temp, label) ==
  LET label2 == Alphabet[(temp % 26) + 1] \o label
      temp2  == temp \div 26
  IN  IF temp2 > 0 THEN LabelLoop_NoBorrow(temp2, label2) ELSE label2

\* the do/while loop of getNextJumpLandLabel: the label of candidate `index`
RECURSIVE LabelLoop(_, _)
LabelLoop(temp, label) ==
  LET label2 == Alphabet[(temp % 26) + 1] \o label
      temp2  == (temp \div 26) - 1
  IN  IF temp2 >= 0 THEN LabelLoop(temp2, label2) ELSE label2

LabelOfIndex(index) == LabelLoop(index, "")

\* the while (true) loop of getNextJumpLandLabel
RECURSIVE LabelSearch(_, _)
LabelSearch(existingLabels, index) ==
  IF LabelOfIndex(index) \notin existingLabels
  THEN LabelOfIndex(index)
  ELSE LabelSearch(existingLabels, index + 1)

ExistingLabels(nds) ==
  {JumpLandNodes(nds)[i].label : i \in 1..Len(JumpLandNodes(nds))}

getNextJumpLandLabel(nds) == LabelSearch(ExistingLabels(nds), 0)

UsedIndices(nds) ==
  {JumpLandNodes(nds)[i].colorIndex : i \in 1..Len(JumpLandNodes(nds))}

FreeIndices(nds) == {i \in 0..(PaletteSize - 1) : i \notin UsedIndices(nds)}

\* label variant: colour of an existing node with that label, else the lowest
\* unused palette index, else count mod palette size
getColorIndexForLabel(nds, label) ==
  LET jl    == JumpLandNodes(nds)
      same  == {i \in 1..Len(jl) : jl[i].label = label}
  IN  IF same # {} THEN jl[Min(same)].colorIndex
      ELSE IF FreeIndices(nds) # {} THEN Min(FreeIndices(nds))
      ELSE Len(jl) % PaletteSize

\* a loop that keeps the last unused index instead of breaking at the first
NextColorIndex_NoBreak(nds) ==
  IF FreeIndices(nds) # {}
  THEN CHOOSE m \in FreeIndices(nds) : \A k \in FreeIndices(nds) : k <= m
  ELSE 0

\* current variant: the loop in addJumpNode / addLandNode; colorIndex keeps
\* its initial value 0 when no index is unused
NextColorIndex(nds) ==
  IF FreeIndices(nds) # {} THEN Min(FreeIndices(nds)) ELSE 0

(***************************************************************************)
(* Adding nodes from the context menu                                      *)
(***************************************************************************)
CanAdd(limit) ==
  /\ MainScreen
  /\ contextMenu.visible
  /\ Len(nodes) < limit

AddFrame ==
  /\ contextMenu' = closedMenu
  /\ lastOp' = Op("add", nodes'[Len(nodes')].id)
  /\ UNCHANGED <<variant, edges, loadVars, boxModalVars, editingNodeId,
                 jlModalVars, importVars, labelVars>>

addNewEmptyNode(limit) ==
  /\ variant # "first"
  /\ CanAdd(limit)
  /\ nodes' = Append(nodes, NewBox(randomUUID(IdsInUse, 1), contextMenu.flowX,
                                   contextMenu.flowY, "Yeni Islem",
                                   "Yeni Islem", ""))
  /\ AddFrame

addNodeFromTemplate(limit) ==
  /\ variant = "current"
  /\ CanAdd(limit)
  /\ \E i \in 1..Len(templates) :
       nodes' = Append(nodes, NewBox(randomUUID(IdsInUse, 1),
                                     contextMenu.flowX, contextMenu.flowY,
                                     templates[i].ad, templates[i].ad,
                                     templates[i].aciklama))
  /\ AddFrame

addJumpNode(limit) ==
  /\ variant # "first"
  /\ CanAdd(limit)
  /\ nodes' = Append(nodes,
       IF variant = "label"
       THEN NewJump(randomUUID(IdsInUse, 1), contextMenu.flowX,
                    contextMenu.flowY, getNextJumpLandLabel(nodes), "",
                    getColorIndexForLabel(nodes, getNextJumpLandLabel(nodes)))
       ELSE NewJump(randomUUID(IdsInUse, 1), contextMenu.flowX,
                    contextMenu.flowY, "", "", NextColorIndex(nodes)))
  /\ AddFrame

addLandNode(limit) ==
  /\ variant # "first"
  /\ CanAdd(limit)
  /\ nodes' = Append(nodes,
       IF variant = "label"
       THEN NewLand(randomUUID(IdsInUse, 1), contextMenu.flowX,
                    contextMenu.flowY, getNextJumpLandLabel(nodes),
                    getColorIndexForLabel(nodes, getNextJumpLandLabel(nodes)))
       ELSE NewLand(randomUUID(IdsInUse, 1), contextMenu.flowX,
                    contextMenu.flowY, "", NextColorIndex(nodes)))
  /\ AddFrame

(***************************************************************************)
(* Interactive states with an empty graph                                  *)
(***************************************************************************)
NoImport == [status |-> "none"]

\* the editor showing an empty canvas: in the current variant after "Yeni" on
\* the unauthorized page, in the label variant after a load that returned no
\* nodes
EmptyCanvas ==
  /\ nodes = <<>>
  /\ edges = <<>>
  /\ contextMenu = [visible |-> FALSE, flowX |-> 0, flowY |-> 0]
  /\ token = FALSE
  /\ bypassAuth = TRUE
  /\ isLoading = FALSE
  /\ error = FALSE
  /\ fetchState = "done"
  /\ pendingSaves = 0
  /\ lastOp = Op("none", "")
  /\ isModalOpen = FALSE
  /\ editingNodeId = ""
  /\ formAd = ""
  /\ formAciklama = ""
  /\ isJumpLandModalOpen = FALSE
  /\ jumpLandColorIndex = 0
  /\ selectedLandId = ""
  /\ editingNodeType = ""
  /\ jumpLandLabel = ""
  /\ pendingReads = <<>>
  /\ lastImport = NoImport

EmptyEditor ==
  /\ EmptyCanvas
  /\ labelInput = {}
  /\ labelResult = ""

(***************************************************************************)
(* SpecColor: sequences of Jump/Land additions from an empty graph         *)
(***************************************************************************)
InitColor ==
  /\ variant \in {"current", "label"}
  /\ EmptyEditor

NextColor ==
  \/ onPaneContextMenu(0, 0)
  \/ addJumpNode(MaxJumpLand)
  \/ addLandNode(MaxJumpLand)

SpecColor == InitColor /\ [][NextColor]_vars

\* a step that appends one Jump or Land node
IsJumpLandAddition ==
  /\ Len(nodes') = Len(nodes) + 1
  /\ SubSeq(nodes', 1, Len(nodes)) = nodes
  /\ IsJumpLand(nodes'[Len(nodes')])

ColoursOf(nds) ==
  {nds[i].colorIndex : i \in {j \in 1..Len(nds) : nds[j].type \in {"jump", "land"}}}

PaletteExhausted(nds) == \A c \in 0..(PaletteSize - 1) : c \in ColoursOf(nds)

JumpLandCount(nds) ==
  Cardinality({j \in 1..Len(nds) : nds[j].type \in {"jump", "land"}})

\* C1 (as claimed): an addition made while every palette index 0..7 is in use
\* gives the new node the colorIndex (number of existing Jump/Land nodes) mod 8
C1_WrapsByCount ==
  [][(IsJumpLandAddition /\ PaletteExhausted(nodes))
       => nodes'[Len(nodes')].colorIndex = JumpLandCount(nodes) % PaletteSize]_vars

\* C2: an addition made while some palette index is unused gives the new node
\* the smallest unused index
C2_LowestUnused ==
  [][(IsJumpLandAddition /\ ~PaletteExhausted(nodes))
       => /\ nodes'[Len(nodes')].colorIndex \in 0..(PaletteSize - 1)
          /\ nodes'[Len(nodes')].colorIndex \notin ColoursOf(nodes)
          /\ \A c \in 0..(PaletteSize - 1) :
               c < nodes'[Len(nodes')].colorIndex => c \in ColoursOf(nodes)]_vars

\* witness of C2: five additions have been made and the fifth got index 4
C2_Witness ==
  /\ Len(nodes) = 5
  /\ \A i \in 1..5 : IsJumpLand(nodes[i]) /\ nodes[i].colorIndex = i - 1

(***************************************************************************)
(* SpecLabel: getNextJumpLandLabel as a function of the existing labels    *)
(***************************************************************************)
\* the i-th (i >= 0) string of A, B, ..., Z, AA, AB, ..., ZZ
ShortlexLabel(i) ==
  IF i < 26 THEN Alphabet[i + 1]
  ELSE Alphabet[((i - 26) \div 26) + 1] \o Alphabet[((i - 26) % 26) + 1]

FirstLabels(k) == {ShortlexLabel(i) : i \in 0..(k - 1)}

\* label sets the computation is run on: every subset of a small pool that
\* also holds an undefined label and an out-of-order one, every initial
\* segment of the sequence, and every initial segment with one label missing
LabelInputs ==
  (SUBSET (FirstLabels(5) \cup {"", "AA"}))
  \cup {FirstLabels(k) : k \in 0..MaxLabelPrefix}
  \cup {FirstLabels(k) \ {ShortlexLabel(j)} :
          k \in 1..MaxLabelPrefix, j \in 0..(MaxLabelPrefix - 1)}

InitLabel ==
  /\ variant = "label"
  /\ EmptyCanvas
  /\ labelInput \in LabelInputs
  /\ labelResult = ""

\* one call of getNextJumpLandLabel with existingLabels = labelInput
ComputeLabel ==
  /\ labelResult = ""
  /\ labelResult' = LabelSearch(labelInput, 0)
  /\ lastOp' = Op("getNextJumpLandLabel", "")
  /\ UNCHANGED <<variant, graphVars, menuVars, loadVars, boxModalVars,
                 editingNodeId, jlModalVars, importVars, labelInput>>

NextLabel == ComputeLabel

SpecLabel == InitLabel /\ [][NextLabel]_vars

\* C3: the result is the first string of A, B, ..., Z, AA, AB, ... that is not
\* an existing label: it is never an existing label, {A,B,C} gives D and
\* {A..Z} gives AA
C3_FirstUnusedLabel ==
  labelResult # "" =>
    /\ labelResult \notin labelInput
    /\ \E i \in 0..(MaxLabelPrefix + 1) :
         /\ labelResult = ShortlexLabel(i)
         /\ \A j \in 0..(i - 1) : ShortlexLabel(j) \in labelInput
    /\ (labelInput = {"A", "B", "C"} => labelResult = "D")
    /\ (labelInput = FirstLabels(26) => labelResult = "AA")

\* witness of C3: the whole single-letter alphabet is taken and AA was returned
C3_Witness ==
  /\ labelInput = FirstLabels(26)
  /\ Cardinality(labelInput) = 26
  /\ labelResult = "AA"

(***************************************************************************)
(* Import documents: the value JSON.parse returns for the chosen file      *)
(***************************************************************************)
\* a JSON value read as a coordinate: a number, null/absent, or anything else
Nullish == [k |-> "nullish", v |-> 0]
Num(v)  == [k |-> "num", v |-> v]
Other   == [k |-> "other", v |-> 0]

\* the value of a colorIndex property that is absent
NoColor == 0 - 1

\* position.x of a node built from a position object without a numeric x
\* (first variant): undefined compares false with every number
NoCoord == 0 - 1000000

\* an entry of data.nodes with no property set
RawNode ==
  [isNull |-> FALSE, id |-> "", type |-> "", x |-> Nullish, y |-> Nullish,
   hasPosition |-> FALSE, px |-> Nullish, py |-> Nullish,
   ad |-> "", data_ad |-> "", data_def_ad |-> "", data_label |-> "",
   aciklama |-> "", data_aciklama |-> "", data_def_aciklama |-> "",
   label |-> "", land |-> "", colorIndex |-> NoColor]

NullNode == [RawNode EXCEPT !.isNull = TRUE]

\* an entry of data.templates
RawTemplate == [isNull |-> FALSE, id |-> "", ad |-> "", aciklama |-> ""]

\* an entry of data.edges
RawEdge ==
  [isNull |-> FALSE, id |-> "", source |-> "", target |-> "",
   islem_tur |-> "", sonraki_islem_tur |-> ""]

NullEdge == [RawEdge EXCEPT !.isNull = TRUE]

\* a document: parses is FALSE when JSON.parse throws; hasNodes, hasTemplates
\* and hasEdges say whether the property is an array
Document(ns, ts, es) ==
  [parses |-> TRUE, hasNodes |-> TRUE, nodes |-> ns,
   hasTemplates |-> ts # <<>>, templates |-> ts,
   hasEdges |-> TRUE, edges |-> es]

NoEdgesArray(doc) == [doc EXCEPT !.hasEdges = FALSE, !.edges = <<>>]

NoNodesArray ==
  [parses |-> TRUE, hasNodes |-> FALSE, nodes |-> <<>>,
   hasTemplates |-> FALSE, templates |-> <<>>,
   hasEdges |-> FALSE, edges |-> <<>>]

Unparsable == [NoNodesArray EXCEPT !.parses = FALSE]

DocIds(doc) ==
  {doc.nodes[i].id : i \in 1..Len(doc.nodes)} \cup
  {doc.nodes[i].land : i \in 1..Len(doc.nodes)} \cup
  {doc.templates[i].id : i \in 1..Len(doc.templates)} \cup
  {doc.edges[i].id : i \in 1..Len(doc.edges)} \cup
  {doc.edges[i].source : i \in 1..Len(doc.edges)} \cup
  {doc.edges[i].target : i \in 1..Len(doc.edges)}

(***************************************************************************)
(* importJson: building the nodes                                          *)
(***************************************************************************)
\* a ?? b
Coalesce(a, b) == IF a.k = "nullish" THEN b ELSE a

\* n.x ?? n.position?.x
RawX(n) == Coalesce(n.x, IF n.hasPosition THEN n.px ELSE Nullish)
RawY(n) == Coalesce(n.y, IF n.hasPosition THEN n.py ELSE Nullish)

\* a grid with a single column
GridX_NoColumn(index) == 100

GridX(index) == 100 + (index % 5) * 250

\* a grid whose row is taken modulo 5 as well
GridY_Modulo(index) == 100 + (index % 5) * 100

GridY(index) == 100 + (index \div 5) * 100

\* current and label variant: each coordinate falls back on its own
ImportX(n, index) == IF RawX(n).k = "num" THEN RawX(n).v ELSE GridX(index)
ImportY(n, index) == IF RawY(n).k = "num" THEN RawY(n).v ELSE GridY(index)

\* first variant: n.position || (both flat numbers ? {x, y} : grid)
FirstImportX(n, index) ==
  IF n.hasPosition THEN (IF n.px.k = "num" THEN n.px.v ELSE NoCoord)
  ELSE IF n.x.k = "num" /\ n.y.k = "num" THEN n.x.v
  ELSE GridX(index)

FirstImportY(n, index) ==
  IF n.hasPosition THEN (IF n.py.k = "num" THEN n.py.v ELSE NoCoord)
  ELSE IF n.x.k = "num" /\ n.y.k = "num" THEN n.y.v
  ELSE GridY(index)

PositionX(v, n, index) ==
  IF v = "first" THEN FirstImportX(n, index) ELSE ImportX(n, index)

PositionY(v, n, index) ==
  IF v = "first" THEN FirstImportY(n, index) ELSE ImportY(n, index)

\* a || b || c || ... : the first non-empty string, "" if there is none
RECURSIVE FirstTruthy(_)
FirstTruthy(ss) ==
  IF ss = <<>> THEN ""
  ELSE IF Head(ss) # "" THEN Head(ss)
  ELSE FirstTruthy(Tail(ss))

ImportAd(n) ==
  FirstTruthy(<<n.ad, n.data_ad, n.data_def_ad, n.data_label, "Imported Node">>)

ImportAciklama(n) ==
  FirstTruthy(<<n.aciklama, n.data_aciklama, n.data_def_aciklama>>)

\* the label variant leaves out entries whose position is exactly (-1,-1)
SkipsEntry(v, n) == v = "label" /\ RawX(n) = Num(-1) /\ RawY(n) = Num(-1)

\* the node pushed for entry n of data.nodes at 0-based position index
ImportNode(v, n, index, id) ==
  IF v # "first" /\ n.type = "jump"
  THEN NewJump(id, PositionX(v, n, index), PositionY(v, n, index),
               IF v = "label" THEN FirstTruthy(<<n.label, "A">>) ELSE n.label,
               IF v = "label" THEN "" ELSE n.land,
               IF n.colorIndex = NoColor THEN 0 ELSE n.colorIndex)
  ELSE IF v # "first" /\ n.type = "land"
  THEN NewLand(id, PositionX(v, n, index), PositionY(v, n, index),
               IF v = "label" THEN FirstTruthy(<<n.label, "A">>) ELSE n.label,
               IF n.colorIndex = NoColor THEN 0 ELSE n.colorIndex)
  ELSE NewBox(id, PositionX(v, n, index), PositionY(v, n, index),
              ImportAd(n), ImportAd(n), ImportAciklama(n))

\* data.nodes.forEach: n.id || crypto.randomUUID()
RECURSIVE BuildNodes(_, _, _, _, _)
BuildNodes(v, raw, index, used, acc) ==
  IF index >= Len(raw) THEN acc
  ELSE LET n  == raw[index + 1]
           id == IF n.id # "" THEN n.id ELSE randomUUID(used, 1)
       IN  IF SkipsEntry(v, n)
           THEN BuildNodes(v, raw, index + 1, used, acc)
           ELSE BuildNodes(v, raw, index + 1, used \cup {id},
                           Append(acc, ImportNode(v, n, index, id)))

\* current variant: the explicit templates array becomes nodes at (-1,-1)
ImportTemplate(t, i) ==
  NewBox(IF t.id # "" THEN t.id ELSE "template-explicit-" \o ToString(i),
         0 - 1, 0 - 1, t.ad, t.ad, t.aciklama)

BuildTemplates(ts) == [j \in 1..Len(ts) |-> ImportTemplate(ts[j], j - 1)]

\* allNodes (current), placedNodes (label), importedNodes (first)
ImportedNodes(v, doc, used) ==
  BuildNodes(v, doc.nodes, 0, used, <<>>)
    \o (IF v = "current" /\ doc.hasTemplates
        THEN BuildTemplates(doc.templates) ELSE <<>>)

(***************************************************************************)
(* importJson: resolving the edges                                         *)
(***************************************************************************)
\* boxData.def?.ad || boxData.label
NodeAd(n) == IF n.ad # "" THEN n.ad ELSE n.label

\* adToNodeId.get(name): the map is filled in node order, so a later process
\* node with the same name replaces an earlier one; "" when there is no entry
AdToNodeId(allNodes, name) ==
  LET hits == {i \in 1..Len(allNodes) :
                 /\ allNodes[i].type = "box"
                 /\ NodeAd(allNodes[i]) # ""
                 /\ NodeAd(allNodes[i]) = name}
  IN  IF hits = {} THEN ""
      ELSE allNodes[CHOOSE i \in hits : \A j \in hits : j <= i].id

\* strings the RFC 4122 version-4 pattern of the current variant accepts
MaxUuid == 40
IsValidUUID(id) == id \in {Uuid(k) : k \in 1..MaxUuid}

SourceId(allNodes, e) ==
  IF e.source # "" THEN e.source ELSE AdToNodeId(allNodes, e.islem_tur)

TargetId(allNodes, e) ==
  IF e.target # "" THEN e.target ELSE AdToNodeId(allNodes, e.sonraki_islem_tur)

\* a test that drops an entry only when both endpoints are missing
DropsEdge_BothMissing(allNodes, e) ==
  SourceId(allNodes, e) = "" /\ TargetId(allNodes, e) = ""

\* if (!sourceId || !targetId) return null
DropsEdge(allNodes, e) ==
  SourceId(allNodes, e) = "" \/ TargetId(allNodes, e) = ""

KeepsEdgeId(v, e) ==
  IF v = "current" THEN e.id # "" /\ IsValidUUID(e.id) ELSE e.id # ""

\* data.edges.map(...).filter(Boolean)
RECURSIVE BuildEdges(_, _, _, _, _, _)
BuildEdges(v, raw, index, used, acc, allNodes) ==
  IF index >= Len(raw) THEN acc
  ELSE LET e  == raw[index + 1]
           id == IF KeepsEdgeId(v, e) THEN e.id ELSE randomUUID(used, 1)
       IN  IF DropsEdge(allNodes, e)
           THEN BuildEdges(v, raw, index + 1, used, acc, allNodes)
           ELSE BuildEdges(v, raw, index + 1, used \cup {id},
                           Append(acc, NewEdge(id, SourceId(allNodes, e),
                                               TargetId(allNodes, e))),
                           allNodes)

ImportedEdges(v, doc, used, allNodes) ==
  BuildEdges(v, doc.edges, 0,
             used \cup {allNodes[i].id : i \in 1..Len(allNodes)},
             <<>>, allNodes)

(***************************************************************************)
(* importJson: the handler and the FileReader callback                     *)
(***************************************************************************)
HasNullNode(doc) == \E i \in 1..Len(doc.nodes) : doc.nodes[i].isNull
HasNullTemplate(doc) ==
  doc.hasTemplates /\ \E i \in 1..Len(doc.templates) : doc.templates[i].isNull
HasNullEdge(doc) ==
  doc.hasEdges /\ \E i \in 1..Len(doc.edges) : doc.edges[i].isNull

\* an exception is thrown before setNodes is called
ThrowsBeforeSetNodes(v, doc) ==
  \/ ~doc.parses
  \/ doc.hasNodes /\ HasNullNode(doc)
  \/ doc.hasNodes /\ v = "current" /\ HasNullTemplate(doc)

\* an exception is thrown after setNodes and before setEdges
ThrowsAfterSetNodes(v, doc) ==
  /\ ~ThrowsBeforeSetNodes(v, doc)
  /\ doc.hasNodes
  /\ \/ v = "label" /\ HasNullTemplate(doc)
     \/ HasNullEdge(doc)

PendingIds ==
  UNION {DocIds(pendingReads[i]) : i \in 1..Len(pendingReads)}

\* the change handler of the file input: reader.readAsText(file)
\* with at most limit reads in flight
importJsonUpTo(doc, limit) ==
  /\ MainScreen
  /\ Len(pendingReads) < limit
  /\ pendingReads' = Append(pendingReads, doc)
  /\ lastOp' = Op("importJson", "")
  /\ UNCHANGED <<variant, graphVars, menuVars, loadVars, boxModalVars,
                 editingNodeId, jlModalVars, lastImport, labelVars>>

importJson(doc) == importJsonUpTo(doc, MaxPending)

RemoveAt(s, i) == SubSeq(s, 1, i - 1) \o SubSeq(s, i + 1, Len(s))

\* reader.onload for the i-th read in flight
readerOnload(i) ==
  /\ i \in 1..Len(pendingReads)
  /\ LET doc      == pendingReads[i]
         used     == IdsInUse \cup PendingIds
         allNodes == ImportedNodes(variant, doc, used)
     IN  /\ nodes' = IF ThrowsBeforeSetNodes(variant, doc) \/ ~doc.hasNodes
                     THEN nodes ELSE allNodes
         /\ edges' = IF \/ ThrowsBeforeSetNodes(variant, doc)
                        \/ ThrowsAfterSetNodes(variant, doc)
                        \/ ~doc.hasNodes
                        \/ ~doc.hasEdges
                     THEN edges
                     ELSE ImportedEdges(variant, doc, used, allNodes)
         /\ lastImport' =
              [status |-> IF \/ ThrowsBeforeSetNodes(variant, doc)
                             \/ ThrowsAfterSetNodes(variant, doc)
                          THEN "failed" ELSE "ok",
               doc |-> doc]
  /\ pendingReads' = RemoveAt(pendingReads, i)
  /\ lastOp' = Op("readerOnload", "")
  /\ UNCHANGED <<variant, menuVars, loadVars, boxModalVars, editingNodeId,
                 jlModalVars, labelVars>>

(***************************************************************************)
(* SpecImport: file imports into the editor                                *)
(***************************************************************************)
\* sequences over S of length at most n
SeqsUpTo(S, n) == UNION {[1..k -> S] : k \in 0..n}

\* node entries: the flat format of the current export, two legacy shapes, a
\* Jump that names a Land, a Land with half a position, and null
NodeA ==
  [RawNode EXCEPT !.id = "n1", !.type = "box", !.x = Num(0), !.y = Num(0),
                  !.ad = "A", !.aciklama = "dA"]
NodeB ==
  [RawNode EXCEPT !.id = "n2", !.hasPosition = TRUE, !.px = Num(100),
                  !.py = Num(100), !.data_def_ad = "B"]
NodeLegacyA == [RawNode EXCEPT !.id = "n3", !.data_label = "A"]
NodeAnonymous == [RawNode EXCEPT !.type = "box", !.x = Num(0 - 1), !.y = Num(0 - 1)]
NodeJump ==
  [RawNode EXCEPT !.id = "j1", !.type = "jump", !.x = Num(0 - 1),
                  !.y = Num(0 - 1), !.land = "l1", !.colorIndex = 2]
NodeLand ==
  [RawNode EXCEPT !.id = "l1", !.type = "land", !.y = Num(50), !.label = "B"]

\* a second Jump that names the same Land as NodeJump
NodeJump2 ==
  [RawNode EXCEPT !.id = "j2", !.type = "jump", !.x = Num(0), !.y = Num(0),
                  !.land = "l1", !.colorIndex = 2]

NodeEntries == {NodeA, NodeB, NodeAnonymous, NodeJump, NodeLand}

TemplateLists ==
  { <<RawTemplate>>,
    <<[RawTemplate EXCEPT !.id = "t1", !.ad = "A", !.aciklama = "dA"]>>,
    <<[RawTemplate EXCEPT !.isNull = TRUE]>> }

\* edge entries: endpoints by name, by name with an unknown name, by id with
\* a version-4 id, by id with a dangling source and a hand-written id, null
EdgeByName == [RawEdge EXCEPT !.islem_tur = "A", !.sonraki_islem_tur = "B"]
EdgeUnknownName == [RawEdge EXCEPT !.islem_tur = "A", !.sonraki_islem_tur = "C"]
EdgeById ==
  [RawEdge EXCEPT !.id = "u1", !.source = "n1", !.target = "n2",
                  !.islem_tur = "A", !.sonraki_islem_tur = "B"]
EdgeDangling == [RawEdge EXCEPT !.id = "e1", !.source = "zz", !.target = "n1"]

EdgeEntries == {EdgeByName, EdgeUnknownName, EdgeById, EdgeDangling}

\* documents imported one after another in SpecImport
ImportDocs ==
  {Unparsable, NoNodesArray,
   NoEdgesArray(Document(<<NodeB>>, <<>>, <<>>)),
   Document(<<>>, <<>>, <<>>),
   Document(<<NodeA, NullNode>>, <<>>, <<>>),
   Document(<<NodeA, NodeB>>, <<>>, <<EdgeByName>>),
   Document(<<NodeA, NodeB>>, <<>>, <<EdgeByName, NullEdge>>),
   Document(<<NodeA, NodeLegacyA>>, <<>>, <<EdgeById, EdgeUnknownName>>),
   Document(<<NodeJump>>, <<>>, <<>>),
   Document(<<NodeJump, NodeJump2, NodeLand>>, <<>>, <<>>),
   Document(<<NodeAnonymous, NodeLand>>, <<>>, <<>>),
   Document(<<>>, <<RawTemplate>>, <<>>),
   Document(<<NodeA>>, <<[RawTemplate EXCEPT !.isNull = TRUE]>>, <<>>)}

\* documents of SpecFile: every list of node entries and of edge entries up
\* to the bounds, and the template lists
FileDocs ==
  ImportDocs
  \cup {Document(<<NullNode>>, <<>>, <<>>),
        Document(<<NodeA, NodeB>>, <<>>, <<NullEdge>>),
        NoEdgesArray(Document(<<>>, <<>>, <<>>))}
  \cup {Document(ns, <<>>, <<>>) : ns \in SeqsUpTo(NodeEntries, MaxFileNodes)}
  \cup {Document(ns, ts, <<>>) :
          ns \in {<<>>, <<NodeJump>>, <<NodeA, NodeJump>>},
          ts \in TemplateLists}
  \cup {Document(ns, <<>>, es) :
          ns \in {<<NodeA, NodeB>>, <<NodeA, NodeLegacyA>>},
          es \in SeqsUpTo(EdgeEntries, MaxFileEdges)}

\* every variant with an empty canvas (the first variant after it imported a
\* document with an empty nodes array)
InitImport ==
  /\ variant \in Variants
  /\ EmptyEditor

NextImport ==
  \/ \E doc \in ImportDocs : importJson(doc)
  \/ \E i \in 1..MaxPending : readerOnload(i)

SpecImport == InitImport /\ [][NextImport]_vars

(***************************************************************************)
(* SpecFile: one import of any document of FileDocs into the empty editor  *)
(***************************************************************************)
InitFile ==
  /\ variant \in Variants
  /\ EmptyEditor

NextFile ==
  \/ /\ lastImport.status = "none"
     /\ pendingReads = <<>>
     /\ \E doc \in FileDocs : importJson(doc)
  \/ readerOnload(1)

SpecFile == InitFile /\ [][NextFile]_vars

(***************************************************************************)
(* exportJson (current variant): the document written to the file          *)
(***************************************************************************)
IsBox(n)  == n.type = "box"
IsJump(n) == n.type = "jump"
IsLand(n) == n.type = "land"

\* nodeIdToAd.get(id): filled in node order for process nodes with
\* def.ad || label || id; "" when there is no entry
NodeIdToAd(nds, id) ==
  LET hits == {i \in 1..Len(nds) : nds[i].type = "box" /\ nds[i].id = id}
  IN  IF hits = {} THEN ""
      ELSE LET n == nds[CHOOSE i \in hits : \A j \in hits : j <= i]
           IN  FirstTruthy(<<n.ad, n.label, n.id>>)

ExportNode(n) ==
  IF n.type = "box"
  THEN [RawNode EXCEPT !.id = n.id, !.type = "box", !.x = Num(n.x),
                       !.y = Num(n.y), !.ad = NodeAd(n),
                       !.aciklama = n.aciklama]
  ELSE IF n.type = "jump"
  THEN [RawNode EXCEPT !.id = n.id, !.type = "jump", !.x = Num(n.x),
                       !.y = Num(n.y), !.land = n.landId,
                       !.colorIndex = n.colorIndex]
  ELSE [RawNode EXCEPT !.id = n.id, !.type = "land", !.x = Num(n.x),
                       !.y = Num(n.y), !.colorIndex = n.colorIndex]

ExportNodes(nds) ==
  LET ordered == SelectSeq(nds, IsBox) \o SelectSeq(nds, IsJump)
                   \o SelectSeq(nds, IsLand)
  IN  [i \in 1..Len(ordered) |-> ExportNode(ordered[i])]

\* every edge gets a new version-4 id
ExportEdges(nds, eds, used) ==
  [i \in 1..Len(eds) |->
     [RawEdge EXCEPT
        !.id = randomUUID(used, i),
        !.source = eds[i].source,
        !.target = eds[i].target,
        !.islem_tur = FirstTruthy(<<NodeIdToAd(nds, eds[i].source), eds[i].source>>),
        !.sonraki_islem_tur =
           FirstTruthy(<<NodeIdToAd(nds, eds[i].target), eds[i].target>>)]]

ExportDoc(nds, eds, used) ==
  [parses |-> TRUE, hasNodes |-> TRUE, nodes |-> ExportNodes(nds),
   hasTemplates |-> FALSE, templates |-> <<>>,
   hasEdges |-> TRUE, edges |-> ExportEdges(nds, eds, used)]

(***************************************************************************)
(* Claims about the derived lists and about imports (SpecImport)           *)
(***************************************************************************)
InList(s, x) == \E j \in 1..Len(s) : s[j] = x

AtSentinel(n) == n.x = 0 - 1 /\ n.y = 0 - 1
AtOrigin(n)   == n.x = 0 /\ n.y = 0

\* C4 (as claimed): a node of any kind at (-1,-1) is absent from the visible
\* list and present in the template list; a node at (0,0) is present in the
\* visible list and absent from the template list
C4_AnyKind ==
  variant = "current" =>
    \A i \in 1..Len(nodes) :
      /\ AtSentinel(nodes[i]) =>
           ~InList(visibleNodes, nodes[i]) /\ InList(templateNodes, nodes[i])
      /\ AtOrigin(nodes[i]) =>
           InList(visibleNodes, nodes[i]) /\ ~InList(templateNodes, nodes[i])

\* C4 (amended): a node at (-1,-1) is absent from the visible list and is in
\* the template list exactly when it is a process node; a node at (0,0) is in
\* the visible list and not in the template list; every template entry is the
\* projection of its node
C4_ProcessTemplates ==
  variant = "current" =>
    /\ \A i \in 1..Len(nodes) :
         /\ AtSentinel(nodes[i]) =>
              /\ ~InList(visibleNodes, nodes[i])
              /\ InList(templateNodes, nodes[i]) <=> nodes[i].type = "box"
         /\ AtOrigin(nodes[i]) =>
              InList(visibleNodes, nodes[i]) /\ ~InList(templateNodes, nodes[i])
    /\ Len(templates) = Len(templateNodes)
    /\ \A j \in 1..Len(templates) : templates[j].id = templateNodes[j].id

\* witness of C4: a process node at (0,0), a Jump at (-1,-1) and a process
\* node at (-1,-1) are in the collection together
C4_Witness ==
  /\ variant = "current"
  /\ \E i \in 1..Len(nodes) : AtOrigin(nodes[i]) /\ nodes[i].type = "box"
  /\ \E i \in 1..Len(nodes) : AtSentinel(nodes[i]) /\ nodes[i].type = "jump"
  /\ \E i \in 1..Len(nodes) : AtSentinel(nodes[i]) /\ nodes[i].type = "box"

Occurrences(s, x) == Cardinality({i \in 1..Len(s) : s[i] = x})

SameBag(s, t) ==
  /\ Len(s) = Len(t)
  /\ \A i \in 1..Len(s) : Occurrences(s, s[i]) = Occurrences(t, s[i])

\* (name, description) of the process nodes
BoxPairs(nds) ==
  LET boxes == SelectSeq(nds, IsBox)
  IN  [i \in 1..Len(boxes) |-> <<NodeAd(boxes[i]), boxes[i].aciklama>>]

\* the name of the process node with that id, the id where there is none
EndpointName(nds, id) == FirstTruthy(<<NodeIdToAd(nds, id), id>>)

EdgeNamePairs(nds, eds) ==
  [i \in 1..Len(eds) |->
     <<EndpointName(nds, eds[i].source), EndpointName(nds, eds[i].target)>>]

\* C5 (as claimed): importing the document exportJson writes for the current
\* graph gives the same number of nodes, the same multiset of process-node
\* (name, description) pairs and the same multiset of edge (source name,
\* target name) pairs
C5_RoundTrip ==
  variant = "current" =>
    LET doc  == ExportDoc(nodes, edges, IdsInUse)
        used == IdsInUse \cup DocIds(doc)
        ns2  == ImportedNodes("current", doc, used)
        es2  == ImportedEdges("current", doc, used, ns2)
    IN  /\ Len(ns2) = Len(nodes)
        /\ SameBag(BoxPairs(ns2), BoxPairs(nodes))
        /\ SameBag(EdgeNamePairs(ns2, es2), EdgeNamePairs(nodes, edges))

\* a step in which a read completes and the import fails
ImportFails ==
  /\ Len(pendingReads') < Len(pendingReads)
  /\ lastImport'.status = "failed"

\* C6 (as claimed): an import that fails leaves the node collection and the
\* edge collection as they were before it
C6_FailedImportKeepsGraph ==
  [][ImportFails => (nodes' = nodes /\ edges' = edges)]_vars

\* the entries of the last imported document are all objects
NoNullEntry(doc) ==
  ~HasNullNode(doc) /\ ~HasNullTemplate(doc) /\ ~HasNullEdge(doc)

\* some process node in the collection has that (non-empty) name
NameMatches(name) ==
  /\ name # ""
  /\ \E i \in 1..Len(nodes) : nodes[i].type = "box" /\ NodeAd(nodes[i]) = name

\* entry e gives both endpoints, each by id or by the name of a process node
Resolvable(e) ==
  /\ e.source # "" \/ NameMatches(e.islem_tur)
  /\ e.target # "" \/ NameMatches(e.sonraki_islem_tur)

\* C9: an import whose entries are all objects does not fail, and an edge
\* entry without source/target ids whose islem_tur or sonraki_islem_tur names
\* no imported process node yields no edge: the edges after the import are
\* exactly as many as the resolvable entries and none has an empty endpoint;
\* nodes A, B with one resolvable and one unresolvable entry give one edge
C9_UnresolvedEdgeDropped ==
  (/\ lastImport.status # "none"
   /\ lastImport.doc.parses
   /\ lastImport.doc.hasNodes
   /\ lastImport.doc.hasEdges
   /\ NoNullEntry(lastImport.doc))
  => /\ lastImport.status = "ok"
     /\ Len(edges) =
          Cardinality({i \in 1..Len(lastImport.doc.edges) :
                         Resolvable(lastImport.doc.edges[i])})
     /\ \A i \in 1..Len(edges) : edges[i].source # "" /\ edges[i].target # ""
     /\ (/\ lastImport.doc.nodes = <<NodeA, NodeB>>
         /\ lastImport.doc.edges \in {<<EdgeByName, EdgeUnknownName>>,
                                      <<EdgeUnknownName, EdgeByName>>})
        => Len(edges) = 1

\* witness of C9: nodes A and B were imported with a resolvable and an
\* unresolvable entry, and one edge from A to B is in the graph
C9_Witness ==
  /\ lastImport.status = "ok"
  /\ lastImport.doc.nodes = <<NodeA, NodeB>>
  /\ lastImport.doc.edges = <<EdgeUnknownName, EdgeByName>>
  /\ Len(edges) = 1
  /\ edges[1].source = "n1"
  /\ edges[1].target = "n2"

\* C10 (as claimed): every Jump node whose landId is set refers to a Land
\* node of the node collection
C10_LandExists ==
  \A i \in 1..Len(nodes) :
    (nodes[i].type = "jump" /\ nodes[i].landId # "")
      => \E j \in 1..Len(nodes) :
           nodes[j].type = "land" /\ nodes[j].id = nodes[i].landId

(***************************************************************************)
(* SpecGrid: one import of a document with up to MaxGridNodes entries      *)
(* whose positions are absent, half given, or given                        *)
(***************************************************************************)
\* no x, no y, no position object
GridAbsent == RawNode
\* x is a string, y is a number
GridStringX == [RawNode EXCEPT !.x = Other, !.y = Num(200)]
\* x is -1, y is absent
GridOnlyX == [RawNode EXCEPT !.x = Num(0 - 1)]
\* x and y are strings
GridStrings == [RawNode EXCEPT !.x = Other, !.y = Other]
\* a position object with numbers
GridNested ==
  [RawNode EXCEPT !.hasPosition = TRUE, !.px = Num(100), !.py = Num(100)]

GridEntries == {GridAbsent, GridStringX, GridOnlyX, GridStrings, GridNested}

GridDocs ==
  {Document(ns, <<>>, <<>>) : ns \in SeqsUpTo(GridEntries, MaxGridNodes)}

InitGrid ==
  /\ variant \in Variants
  /\ EmptyEditor

NextGrid ==
  \/ /\ lastImport.status = "none"
     /\ pendingReads = <<>>
     /\ \E doc \in GridDocs : importJson(doc)
  \/ readerOnload(1)

SpecGrid == InitGrid /\ [][NextGrid]_vars

\* the entry gives no position at all
NoExplicitPosition(n) ==
  n.x.k = "nullish" /\ n.y.k = "nullish" /\ ~n.hasPosition

\* neither coordinate of the entry is a number
NeitherNumeric(n) == RawX(n).k # "num" /\ RawY(n).k # "num"

\* at least one coordinate of the entry is not a number
Malformed(n) == RawX(n).k # "num" \/ RawY(n).k # "num"

\* an import has completed and node i was built from entry i of the document
Imported ==
  /\ lastImport.status = "ok"
  /\ lastImport.doc.hasNodes
  /\ Len(nodes) = Len(lastImport.doc.nodes)

\* C7: a node built from an entry at index i that gives no position is placed
\* at (100 + (i mod 5)*250, 100 + floor(i/5)*100); two such nodes never share
\* a position, and x >= 100 and y >= 100 for each
C7_FallbackGrid ==
  lastImport.status = "ok" =>
    /\ Imported
    /\ \A i \in 1..Len(nodes) :
         NoExplicitPosition(lastImport.doc.nodes[i]) =>
           /\ nodes[i].x = 100 + ((i - 1) % 5) * 250
           /\ nodes[i].y = 100 + ((i - 1) \div 5) * 100
           /\ nodes[i].x >= 100
           /\ nodes[i].y >= 100
           /\ \A j \in 1..Len(nodes) :
                (j # i /\ NoExplicitPosition(lastImport.doc.nodes[j]))
                  => <<nodes[i].x, nodes[i].y>> # <<nodes[j].x, nodes[j].y>>

\* witness of C7: six entries without positions were imported and the sixth
\* node starts the second row
C7_Witness ==
  /\ Imported
  /\ Len(nodes) = 6
  /\ \A i \in 1..6 : NoExplicitPosition(lastImport.doc.nodes[i])
  /\ nodes[6].x = 100
  /\ nodes[6].y = 200

\* C8 (as claimed): every imported node with at least one coordinate that is
\* not a number is visible and shares its position with no other such node
C8_MalformedVisible ==
  (variant = "current" /\ lastImport.status = "ok") =>
    /\ Imported
    /\ \A i \in 1..Len(nodes) :
         Malformed(lastImport.doc.nodes[i]) =>
           /\ nodes[i].x >= 0 /\ nodes[i].y >= 0
           /\ \A j \in 1..Len(nodes) :
                (j # i /\ Malformed(lastImport.doc.nodes[j]))
                  => <<nodes[i].x, nodes[i].y>> # <<nodes[j].x, nodes[j].y>>

\* C8 (amended): every imported node with neither coordinate a number is
\* visible and shares its position with no other such node
C8_NeitherNumericVisible ==
  (variant = "current" /\ lastImport.status = "ok") =>
    /\ Imported
    /\ \A i \in 1..Len(nodes) :
         NeitherNumeric(lastImport.doc.nodes[i]) =>
           /\ InList(visibleNodes, nodes[i])
           /\ \A j \in 1..Len(nodes) :
                (j # i /\ NeitherNumeric(lastImport.doc.nodes[j]))
                  => <<nodes[i].x, nodes[i].y>> # <<nodes[j].x, nodes[j].y>>

\* witness of C8: entries without numeric coordinates were imported next to
\* one with half a position, and two of them sit in the same column
C8_Witness ==
  /\ variant = "current"
  /\ Imported
  /\ Len(nodes) = 6
  /\ lastImport.doc.nodes[1] = GridAbsent
  /\ lastImport.doc.nodes[2] = GridOnlyX
  /\ lastImport.doc.nodes[6] = GridStrings
  /\ nodes[1].x = nodes[6].x
  /\ nodes[1].y # nodes[6].y

(***************************************************************************)
(* Connecting, disconnecting, deleting                                     *)
(***************************************************************************)
\* the canvas receives pointer events: the main screen without a modal
\* overlay (position fixed, inset 0) on top of it
CanvasFree == MainScreen /\ ~isModalOpen /\ ~isJumpLandModalOpen

\* reactflow's connectionExists: an edge with the same source and target
\* (the handles of this application carry no ids)
connectionExists(edge, eds) ==
  \E i \in 1..Len(eds) :
    eds[i].source = edge.source /\ eds[i].target = edge.target

\* an addEdge that appends whatever it is given
addEdge_Always(edge, eds) == Append(eds, edge)

\* reactflow's addEdge: a connection without source or target, or one that
\* exists already, leaves the list as it is
addEdge(edge, eds) ==
  IF edge.source = "" \/ edge.target = "" THEN eds
  ELSE IF connectionExists(edge, eds) THEN eds
  ELSE Append(eds, edge)

\* nodes that render a source handle / a target handle
HasSourceHandle(n) == n.type = "box" \/ n.type = "land"
HasTargetHandle(n) == n.type = "box" \/ n.type = "jump"

\* the id reactflow gives an edge that is passed to addEdge without one
\* (the handles carry no ids)
getEdgeId(source, target) == "reactflow__edge-" \o source \o "-" \o target

\* the current variant passes a version-4 id to addEdge, the label variant
\* and the first variant pass none
ConnectionId(source, target) ==
  IF variant = "current"
  THEN randomUUID(IdsInUse \cup PendingIds, 1)
  ELSE getEdgeId(source, target)

onConnect(source, target) ==
  /\ CanvasFree
  /\ Len(edges) < MaxEdges
  /\ \E i, j \in 1..Len(visibleNodes) :
       /\ HasSourceHandle(visibleNodes[i]) /\ visibleNodes[i].id = source
       /\ HasTargetHandle(visibleNodes[j]) /\ visibleNodes[j].id = target
  /\ edges' = addEdge(NewEdge(ConnectionId(source, target), source, target),
                      edges)
  /\ lastOp' = OpConnect(source, target)
  /\ UNCHANGED <<variant, nodes, menuVars, loadVars, boxModalVars,
                 editingNodeId, jlModalVars, importVars, labelVars>>

\* a filter that drops every edge between the same two nodes
WithoutEdge_SamePair(eds, id) ==
  SelectSeq(eds, LAMBDA e :
    \A k \in 1..Len(eds) :
      eds[k].id = id => (e.source # eds[k].source \/ e.target # eds[k].target))

\* eds.filter((e) => e.id !== edge.id)
WithoutEdge(eds, id) == SelectSeq(eds, LAMBDA e : e.id # id)

onEdgeDoubleClick(id) ==
  /\ CanvasFree
  /\ \E i \in 1..Len(edges) : edges[i].id = id
  /\ edges' = WithoutEdge(edges, id)
  /\ contextMenu' = closedMenu
  /\ lastOp' = Op("onEdgeDoubleClick", id)
  /\ UNCHANGED <<variant, nodes, loadVars, boxModalVars, editingNodeId,
                 jlModalVars, importVars, labelVars>>

\* a handler that removes the edges of the deleted node
onNodesDelete_Cascade(id) ==
  /\ CanvasFree
  /\ \E i \in 1..Len(visibleNodes) : visibleNodes[i].id = id
  /\ edges' = SelectSeq(edges, LAMBDA e : e.source # id /\ e.target # id)
  /\ lastOp' = Op("onNodesDelete", id)
  /\ UNCHANGED <<variant, nodes, menuVars, loadVars, boxModalVars,
                 editingNodeId, jlModalVars, importVars, labelVars>>

\* (_deletedNodes) => {} : called with a node of the canvas
onNodesDelete(id) ==
  /\ CanvasFree
  /\ \E i \in 1..Len(visibleNodes) : visibleNodes[i].id = id
  /\ lastOp' = Op("onNodesDelete", id)
  /\ UNCHANGED <<variant, graphVars, menuVars, loadVars, boxModalVars,
                 editingNodeId, jlModalVars, importVars, labelVars>>

(***************************************************************************)
(* The edit dialogs (current variant)                                      *)
(***************************************************************************)
\* values typed into the name field and the description field
FormNames == {" ", "X"}
FormDescriptions == {"dX"}

\* String.prototype.trim on the values of FormNames
Trim(str) == IF str = " " THEN "" ELSE str

\* colours clicked in the palette of the dialog
ColourChoices == {PaletteSize - 1}

onNodeDoubleClick(i) ==
  /\ variant # "first"
  /\ CanvasFree
  /\ i \in 1..Len(visibleNodes)
  /\ LET node == visibleNodes[i]
     IN  /\ editingNodeId' = node.id
         /\ IF node.type = "jump" \/ node.type = "land"
            THEN /\ jumpLandColorIndex' = node.colorIndex
                 /\ editingNodeType' = node.type
                 /\ selectedLandId' =
                      IF variant = "label" THEN selectedLandId
                      ELSE IF node.type = "jump" THEN node.landId ELSE ""
                 /\ jumpLandLabel' =
                      IF variant = "label"
                      THEN FirstTruthy(<<node.label, "A">>)
                      ELSE jumpLandLabel
                 /\ isJumpLandModalOpen' = TRUE
                 /\ UNCHANGED boxModalVars
            ELSE /\ formAd' = node.ad
                 /\ formAciklama' = node.aciklama
                 /\ isModalOpen' = TRUE
                 /\ UNCHANGED jlModalVars
         /\ lastOp' = Op("onNodeDoubleClick", node.id)
  /\ contextMenu' = closedMenu
  /\ UNCHANGED <<variant, graphVars, loadVars, importVars, labelVars>>

setFormAd(value) ==
  /\ isModalOpen
  /\ formAd # value
  /\ formAd' = value
  /\ lastOp' = Op("setFormAd", "")
  /\ UNCHANGED <<variant, graphVars, menuVars, loadVars, isModalOpen,
                 formAciklama, editingNodeId, jlModalVars, importVars,
                 labelVars>>

setFormAciklama(value) ==
  /\ isModalOpen
  /\ formAciklama # value
  /\ formAciklama' = value
  /\ lastOp' = Op("setFormAciklama", "")
  /\ UNCHANGED <<variant, graphVars, menuVars, loadVars, isModalOpen, formAd,
                 editingNodeId, jlModalVars, importVars, labelVars>>

closeModal ==
  /\ isModalOpen
  /\ isModalOpen' = FALSE
  /\ editingNodeId' = ""
  /\ lastOp' = Op("closeModal", "")
  /\ UNCHANGED <<variant, graphVars, menuVars, loadVars, formAd, formAciklama,
                 jlModalVars, importVars, labelVars>>

\* a saveNode that does not look at the kind of the node
SavedBox_AnyKind(n) ==
  IF n.id # editingNodeId THEN n
  ELSE [n EXCEPT !.label = FirstTruthy(<<Trim(formAd), "ISIMSIZ">>),
                 !.ad = FirstTruthy(<<Trim(formAd), "ISIMSIZ">>),
                 !.aciklama = formAciklama]

\* the node written by saveNode for node n
SavedBox(n) ==
  IF n.id # editingNodeId THEN n
  ELSE IF n.type # "box" THEN n
  ELSE [n EXCEPT !.label = FirstTruthy(<<Trim(formAd), "ISIMSIZ">>),
                 !.ad = FirstTruthy(<<Trim(formAd), "ISIMSIZ">>),
                 !.aciklama = formAciklama]

saveNode ==
  /\ isModalOpen
  /\ IF editingNodeId = ""
     THEN UNCHANGED <<nodes, isModalOpen, editingNodeId>>
     ELSE /\ nodes' = [k \in 1..Len(nodes) |-> SavedBox(nodes[k])]
          /\ isModalOpen' = FALSE
          /\ editingNodeId' = ""
  /\ lastOp' = Op("saveNode", editingNodeId)
  /\ UNCHANGED <<variant, edges, menuVars, loadVars, formAd, formAciklama,
                 jlModalVars, importVars, labelVars>>

\* Land nodes no Jump refers to, and the Land selected in the dialog
IsLand2(n) == n.type = "land"

connectedLandIds ==
  {nodes[k].landId : k \in {j \in 1..Len(nodes) : nodes[j].type = "jump"}}
    \ {""}

getAvailableLandNodes ==
  SelectSeq(SelectSeq(nodes, IsLand2),
            LAMBDA land : land.id \notin connectedLandIds
                            \/ land.id = selectedLandId)

\* nodes.find((n) => n.id === value): the first node with that id
FindNode(id) ==
  LET hits == {k \in 1..Len(nodes) : nodes[k].id = id}
  IN  IF hits = {} THEN 0 ELSE Min(hits)

\* onChange of the Land select of the Jump dialog
selectLand(value) ==
  /\ variant = "current"
  /\ isJumpLandModalOpen
  /\ editingNodeType = "jump"
  /\ value # selectedLandId
  /\ \/ value = ""
     \/ \E k \in 1..Len(getAvailableLandNodes) :
          getAvailableLandNodes[k].id = value
  /\ selectedLandId' = value
  /\ jumpLandColorIndex' =
       IF value # "" /\ FindNode(value) # 0
                     /\ nodes[FindNode(value)].type = "land"
       THEN nodes[FindNode(value)].colorIndex
       ELSE jumpLandColorIndex
  /\ lastOp' = Op("selectLand", "")
  /\ UNCHANGED <<variant, graphVars, menuVars, loadVars, boxModalVars,
                 editingNodeId, isJumpLandModalOpen, editingNodeType,
                 jumpLandLabel, importVars, labelVars>>

\* onClick of a colour of the palette
setJumpLandColorIndex(index) ==
  /\ variant # "first"
  /\ isJumpLandModalOpen
  /\ index # jumpLandColorIndex
  /\ jumpLandColorIndex' = index
  /\ lastOp' = Op("setJumpLandColorIndex", "")
  /\ UNCHANGED <<variant, graphVars, menuVars, loadVars, boxModalVars,
                 editingNodeId, isJumpLandModalOpen, selectedLandId,
                 editingNodeType, jumpLandLabel, importVars, labelVars>>

closeJumpLandModal ==
  /\ variant # "first"
  /\ isJumpLandModalOpen
  /\ isJumpLandModalOpen' = FALSE
  /\ editingNodeId' = ""
  /\ editingNodeType' = ""
  /\ selectedLandId' = IF variant = "current" THEN "" ELSE selectedLandId
  /\ lastOp' = Op("closeJumpLandModal", "")
  /\ UNCHANGED <<variant, graphVars, menuVars, loadVars, boxModalVars,
                 jumpLandColorIndex, jumpLandLabel, importVars, labelVars>>

\* the node written by saveJumpLandNode for node n: data is replaced, so the
\* label is gone
SavedJumpLand(n) ==
  IF n.id # editingNodeId THEN n
  ELSE IF n.type = "jump"
  THEN [n EXCEPT !.label = "", !.landId = selectedLandId,
                 !.colorIndex = jumpLandColorIndex]
  ELSE IF n.type = "land"
  THEN [n EXCEPT !.label = "", !.colorIndex = jumpLandColorIndex]
  ELSE n

\* String.prototype.toUpperCase on the values of TypedLabels
ToUpperCase(str) == IF str = "a" THEN "A" ELSE str

\* labels typed into the input of the dialog (label variant)
TypedLabels == {"a", " "}

\* onChange of the label input (label variant)
setJumpLandLabel(value) ==
  /\ variant = "label"
  /\ isJumpLandModalOpen
  /\ ToUpperCase(value) # jumpLandLabel
  /\ jumpLandLabel' = ToUpperCase(value)
  /\ lastOp' = Op("setJumpLandLabel", "")
  /\ UNCHANGED <<variant, graphVars, menuVars, loadVars, boxModalVars,
                 editingNodeId, isJumpLandModalOpen, jumpLandColorIndex,
                 selectedLandId, editingNodeType, importVars, labelVars>>

\* nodes.find: the first Jump/Land node with that label, 0 when there is none
FindLabel(label) ==
  LET hits == {k \in 1..Len(nodes) :
                 IsJumpLand(nodes[k]) /\ nodes[k].label = label}
  IN  IF hits = {} THEN 0 ELSE Min(hits)

\* onChange of the select of existing labels (label variant)
selectExistingLabel(label) ==
  /\ variant = "label"
  /\ isJumpLandModalOpen
  /\ label # ""
  /\ label \in ExistingLabels(nodes)
  /\ jumpLandLabel' = label
  /\ jumpLandColorIndex' =
       IF FindLabel(label) # 0 THEN nodes[FindLabel(label)].colorIndex
       ELSE jumpLandColorIndex
  /\ lastOp' = Op("selectExistingLabel", "")
  /\ UNCHANGED <<variant, graphVars, menuVars, loadVars, boxModalVars,
                 editingNodeId, isJumpLandModalOpen, selectedLandId,
                 editingNodeType, importVars, labelVars>>

\* jumpLandLabel.trim() || 'A'
labelTrimmed == FirstTruthy(<<Trim(jumpLandLabel), "A">>)

\* a save that writes the edited node and leaves the other nodes alone
SavedByLabel_OnlyEdited(n) ==
  IF n.id = editingNodeId /\ IsJumpLand(n)
  THEN [n EXCEPT !.label = labelTrimmed, !.colorIndex = jumpLandColorIndex]
  ELSE n

\* the node written by saveJumpLandNode of the label variant for node n: the
\* edited node takes label and colour, every other Jump/Land node with that
\* label takes the colour
SavedByLabel(n) ==
  IF n.id = editingNodeId /\ IsJumpLand(n)
  THEN [n EXCEPT !.label = labelTrimmed, !.colorIndex = jumpLandColorIndex]
  ELSE IF IsJumpLand(n) /\ n.label = labelTrimmed /\ n.id # editingNodeId
  THEN [n EXCEPT !.colorIndex = jumpLandColorIndex]
  ELSE n

saveJumpLandNode ==
  /\ variant # "first"
  /\ isJumpLandModalOpen
  /\ IF editingNodeId = ""
     THEN UNCHANGED <<nodes, isJumpLandModalOpen, editingNodeId,
                      editingNodeType, selectedLandId>>
     ELSE /\ nodes' = IF variant = "current"
                      THEN [k \in 1..Len(nodes) |-> SavedJumpLand(nodes[k])]
                      ELSE [k \in 1..Len(nodes) |-> SavedByLabel(nodes[k])]
          /\ isJumpLandModalOpen' = FALSE
          /\ editingNodeId' = ""
          /\ editingNodeType' = ""
          /\ selectedLandId' = IF variant = "current" THEN ""
                                ELSE selectedLandId
  /\ lastOp' = Op("saveJumpLandNode", editingNodeId)
  /\ UNCHANGED <<variant, edges, menuVars, loadVars, boxModalVars,
                 jumpLandColorIndex, jumpLandLabel, importVars, labelVars>>

(***************************************************************************)
(* SpecConnect: connecting, disconnecting and deleting on graphs that were *)
(* imported from a file                                                    *)
(***************************************************************************)
\* a Jump and a Land on the canvas next to two process nodes and one edge;
\* two process nodes with three edges, one of them dangling
ConnectDocs ==
  {Document(<<NodeA, NodeB, NodeJump2, NodeLand>>, <<>>, <<EdgeByName>>),
   Document(<<NodeA, NodeB>>, <<>>, <<EdgeByName, EdgeById, EdgeDangling>>)}

InitConnect ==
  /\ variant \in Variants
  /\ EmptyEditor

NextConnect ==
  \/ \E source, target \in {nodes[k].id : k \in 1..Len(nodes)} :
       onConnect(source, target)
  \/ \E id \in {edges[k].id : k \in 1..Len(edges)} : onEdgeDoubleClick(id)
  \/ \E id \in {nodes[k].id : k \in 1..Len(nodes)} : onNodesDelete(id)
  \/ /\ pendingReads = <<>>
     /\ \E doc \in ConnectDocs : importJson(doc)
  \/ readerOnload(1)

SpecConnect == InitConnect /\ [][NextConnect]_vars

\* files whose entries take the ids of nodes made by the add handlers
FileBoxU1 ==
  [RawNode EXCEPT !.id = "u1", !.type = "box", !.x = Num(0), !.y = Num(0),
                  !.ad = "A"]
FileLandU2 ==
  [RawNode EXCEPT !.id = "u2", !.type = "land", !.x = Num(0), !.y = Num(0),
                  !.colorIndex = 3]
FileEdgeU1 == [RawEdge EXCEPT !.source = "u1", !.target = "u1"]

(***************************************************************************)
(* SpecEdit: adding and editing nodes in the current variant, with a file  *)
(* import that may complete while a dialog is open                         *)
(***************************************************************************)
\* an empty graph, and a graph in which u1 is a process node and u2 a Land
EditDocs ==
  {Document(<<>>, <<>>, <<>>),
   Document(<<FileBoxU1, FileLandU2>>, <<>>, <<FileEdgeU1>>)}

InitEdit ==
  /\ variant = "current"
  /\ EmptyEditor

NextEdit ==
  \/ onPaneContextMenu(0, 0)
  \/ addNewEmptyNode(MaxEditNodes)
  \/ addJumpNode(MaxEditNodes)
  \/ addLandNode(MaxEditNodes)
  \/ \E i \in 1..MaxEditNodes : onNodeDoubleClick(i)
  \/ \E value \in FormNames : setFormAd(value)
  \/ \E value \in FormDescriptions : setFormAciklama(value)
  \/ closeModal
  \/ saveNode
  \/ \E value \in {""} \cup {nodes[k].id : k \in 1..Len(nodes)} :
       selectLand(value)
  \/ \E index \in ColourChoices : setJumpLandColorIndex(index)
  \/ closeJumpLandModal
  \/ saveJumpLandNode
  \/ /\ pendingReads = <<>>
     /\ \E doc \in EditDocs : importJson(doc)
  \/ readerOnload(1)

SpecEdit == InitEdit /\ [][NextEdit]_vars

(***************************************************************************)
(* Claims about the pairing of Jump and Land nodes and about ids           *)
(***************************************************************************)
\* positions of the Jump nodes whose landId is l
JumpsOf(l) == {i \in 1..Len(nodes) : nodes[i].type = "jump" /\ nodes[i].landId = l}

\* C11: in every reachable state no Land node is the landId of more than one
\* Jump node
C11_OneJumpPerLand ==
  \A k \in 1..Len(nodes) :
    nodes[k].type = "land" => Cardinality(JumpsOf(nodes[k].id)) <= 1

\* C12: in every reachable state no two nodes have the same id and no two
\* edges have the same id
C12_UniqueIds ==
  /\ \A i, j \in 1..Len(nodes) : i # j => nodes[i].id # nodes[j].id
  /\ \A i, j \in 1..Len(edges) : i # j => edges[i].id # edges[j].id

Matches(id, kinds) ==
  \E k \in 1..Len(nodes) : nodes[k].id = id /\ nodes[k].type \in kinds

\* C14: a step of saveNode leaves every node unchanged when editingNodeId is
\* the id of no process node, a step of saveJumpLandNode leaves every node
\* unchanged when editingNodeId is the id of no Jump or Land node, and both
\* leave the edges unchanged
C14_EditNoOp ==
  [][/\ lastOp'.op = "saveNode" =>
          /\ edges' = edges
          /\ ~Matches(editingNodeId, {"box"}) => nodes' = nodes
     /\ lastOp'.op = "saveJumpLandNode" =>
          /\ edges' = edges
          /\ ~Matches(editingNodeId, {"jump", "land"}) => nodes' = nodes]_vars

\* witness of C14: saveNode has run while the edited id belonged to a Land
\* node, with an edge in the graph
C14_Witness ==
  /\ lastOp.op = "saveNode"
  /\ lastOp.id # ""
  /\ Matches(lastOp.id, {"land"})
  /\ ~Matches(lastOp.id, {"box"})
  /\ edges # <<>>

\* the ids of the edges
EdgeIds(eds) == {eds[k].id : k \in 1..Len(eds)}

\* C15 (as claimed): every step of onConnect (current variant) appends
\* exactly one edge with a new id and leaves the existing edges and the nodes
\* unchanged
C15_ConnectAppends ==
  [][(variant = "current" /\ lastOp'.op = "onConnect") =>
       /\ nodes' = nodes
       /\ Len(edges') = Len(edges) + 1
       /\ SubSeq(edges', 1, Len(edges)) = edges
       /\ edges'[Len(edges')].id \notin EdgeIds(edges)]_vars

\* C15 (amended): a step of onConnect (current variant) leaves the nodes
\* unchanged; when no edge with the same source and target exists it appends
\* exactly one edge from source to target with a new id (also when source =
\* target), and when such an edge exists it leaves the edges unchanged
C15_ConnectAppendsUnlessExists ==
  [][(variant = "current" /\ lastOp'.op = "onConnect") =>
       /\ nodes' = nodes
       /\ IF \E k \in 1..Len(edges) :
               /\ edges[k].source = lastOp'.id
               /\ edges[k].target = lastOp'.target
          THEN edges' = edges
          ELSE /\ Len(edges') = Len(edges) + 1
               /\ SubSeq(edges', 1, Len(edges)) = edges
               /\ edges'[Len(edges')].source = lastOp'.id
               /\ edges'[Len(edges')].target = lastOp'.target
               /\ edges'[Len(edges')].id \notin EdgeIds(edges)]_vars

\* witness of C15: a node was connected to itself while another edge existed,
\* and the self-loop is the last edge
C15_Witness ==
  /\ variant = "current"
  /\ lastOp.op = "onConnect"
  /\ lastOp.id = lastOp.target
  /\ Len(edges) >= 2
  /\ edges[Len(edges)].source = lastOp.id
  /\ edges[Len(edges)].target = lastOp.id

\* positions of the edges whose id differs from id
KeptPositions(eds, id) == {k \in 1..Len(eds) : eds[k].id # id}

\* the n-th smallest element of a set of numbers
RECURSIVE NthSmallest(_, _)
NthSmallest(S, n) ==
  IF n = 1 THEN Min(S) ELSE NthSmallest(S \ {Min(S)}, n - 1)

\* C16: a step of onEdgeDoubleClick leaves the nodes unchanged and leaves in
\* the edge collection exactly the edges with a different id, in their
\* original order
C16_DisconnectRemovesOne ==
  [][lastOp'.op = "onEdgeDoubleClick" =>
       /\ nodes' = nodes
       /\ Len(edges') = Cardinality(KeptPositions(edges, lastOp'.id))
       /\ \A k \in 1..Len(edges') :
            edges'[k] = edges[NthSmallest(KeptPositions(edges, lastOp'.id), k)]
       /\ (lastOp'.id \notin EdgeIds(edges) => edges' = edges)]_vars

\* witness of C16: an edge was removed by a double click and two other edges
\* between the same two nodes are still there
C16_Witness ==
  /\ lastOp.op = "onEdgeDoubleClick"
  /\ lastOp.id \notin EdgeIds(edges)
  /\ Len(edges) = 2
  /\ edges[1].id # edges[2].id

(***************************************************************************)
(* exportJson: the edge ids written by the three variants                  *)
(***************************************************************************)
\* the id of the i-th exported edge: the current and the first variant always
\* draw a version-4 id, the label variant keeps e.id when it is not empty
ExportEdgeId(v, e, used, i) ==
  IF v = "label" /\ e.id # "" THEN e.id ELSE randomUUID(used, i)

ExportEdgeIds(v, eds, used) ==
  [i \in 1..Len(eds) |-> ExportEdgeId(v, eds[i], used, i)]

\* C17 (as claimed): in every variant the ids exportJson writes for the edges
\* of the present graph are not ids of edges of the graph and are pairwise
\* distinct
C17_ExportIdsFresh ==
  LET ids == ExportEdgeIds(variant, edges, IdsInUse)
  IN  /\ \A i \in 1..Len(ids) : ids[i] \notin EdgeIds(edges)
      /\ \A i, j \in 1..Len(ids) : i # j => ids[i] # ids[j]

(***************************************************************************)
(* Backend load and save (current variant)                                 *)
(***************************************************************************)
\* the page the component renders
UnauthorizedPage == isUnauthorized /\ Len(nodes) = 0
LoadingPage      == ~UnauthorizedPage /\ isLoading
ErrorPage        == ~UnauthorizedPage /\ ~isLoading /\ error

\* a record of data.nodes in the body of GET /workflow
DBNode(id, type, x, y, ad, aciklama, jlLabel, colorIndex) ==
  [id |-> id, type |-> type, x |-> x, y |-> y, ad |-> ad,
   aciklama |-> aciklama, jumpLandLabel |-> jlLabel,
   colorIndex |-> colorIndex]

convertDBNodeToReactFlowNode(dbNode) ==
  IF dbNode.type = "jump"
  THEN NewJump(dbNode.id, dbNode.x, dbNode.y,
               FirstTruthy(<<dbNode.jumpLandLabel, "A">>), "",
               dbNode.colorIndex)
  ELSE IF dbNode.type = "land"
  THEN NewLand(dbNode.id, dbNode.x, dbNode.y,
               FirstTruthy(<<dbNode.jumpLandLabel, "A">>), dbNode.colorIndex)
  ELSE NewBox(dbNode.id, dbNode.x, dbNode.y, dbNode.ad, dbNode.ad,
              dbNode.aciklama)

\* what fetch resolves to: status is "network" when fetch rejects, parses is
\* FALSE when response.json() rejects, hasNodes / hasEdges are FALSE when the
\* body has no such array
Response(status, parses, hasNodes, hasEdges, nds, eds) ==
  [status |-> status, parses |-> parses, hasNodes |-> hasNodes,
   hasEdges |-> hasEdges, nodes |-> nds, edges |-> eds]

DBNodes ==
  <<DBNode("d1", "box", 0, 0, "A", "dA", "", 0),
    DBNode("d2", "jump", 100, 0, "", "", "", 3),
    DBNode("d3", "land", 0 - 1, 0 - 1, "", "", "B", 0)>>

DBEdges == <<NewEdge("d4", "d1", "d2")>>

Responses ==
  {Response("network", FALSE, FALSE, FALSE, <<>>, <<>>),
   Response("401", TRUE, FALSE, FALSE, <<>>, <<>>),
   Response("403", TRUE, FALSE, FALSE, <<>>, <<>>),
   Response("500", TRUE, FALSE, FALSE, <<>>, <<>>),
   Response("200", FALSE, FALSE, FALSE, <<>>, <<>>),
   Response("200", TRUE, FALSE, TRUE, <<>>, DBEdges),
   Response("200", TRUE, TRUE, FALSE, DBNodes, <<>>),
   Response("200", TRUE, TRUE, TRUE, <<>>, <<>>),
   Response("200", TRUE, TRUE, TRUE, DBNodes, DBEdges)}

\* the try block reaches setNodes(allNodes)
ReachesSetNodes(r) == r.status = "200" /\ r.parses /\ r.hasNodes

\* the try block throws
Throws(r) == ~(ReachesSetNodes(r) /\ r.hasEdges)

\* the collections when the try block is left
TryNodes(r) ==
  IF ReachesSetNodes(r)
  THEN [i \in 1..Len(r.nodes) |-> convertDBNodeToReactFlowNode(r.nodes[i])]
  ELSE nodes

TryEdges(r) == IF Throws(r) THEN edges ELSE r.edges

\* the mount state of the component for the given URL
Mount(tok) ==
  /\ nodes = <<>>
  /\ edges = <<>>
  /\ contextMenu = [visible |-> FALSE, flowX |-> 0, flowY |-> 0]
  /\ token = tok
  /\ bypassAuth = FALSE
  /\ isLoading = TRUE
  /\ error = FALSE
  /\ fetchState = "mount"
  /\ pendingSaves = 0
  /\ isModalOpen = FALSE
  /\ editingNodeId = ""
  /\ formAd = ""
  /\ formAciklama = ""
  /\ isJumpLandModalOpen = FALSE
  /\ jumpLandColorIndex = 0
  /\ selectedLandId = ""
  /\ editingNodeType = ""
  /\ jumpLandLabel = ""
  /\ pendingReads = <<>>
  /\ lastImport = NoImport
  /\ labelInput = {}
  /\ labelResult = ""

LoadFrame ==
  UNCHANGED <<variant, menuVars, boxModalVars, editingNodeId, jlModalVars,
              importVars, labelVars>>

\* an effect that fetches whether or not the URL carries a token
mountEffect_NoGuard ==
  /\ fetchState = "mount"
  /\ isLoading' = TRUE
  /\ error' = FALSE
  /\ fetchState' = "pending"
  /\ lastOp' = Op("mountEffect", "")
  /\ UNCHANGED <<graphVars, token, bypassAuth, pendingSaves>>
  /\ LoadFrame

\* the effect of the first render, up to the await of fetch
mountEffect ==
  /\ fetchState = "mount"
  /\ IF ~token
     THEN /\ isLoading' = FALSE
          /\ fetchState' = "done"
          /\ UNCHANGED error
     ELSE /\ isLoading' = TRUE
          /\ error' = FALSE
          /\ fetchState' = "pending"
  /\ lastOp' = Op("mountEffect", "")
  /\ UNCHANGED <<graphVars, token, bypassAuth, pendingSaves>>
  /\ LoadFrame

\* a completion whose catch block does not reset the collections
fetchWorkflowData_NoReset(r) ==
  /\ fetchState = "pending"
  /\ nodes' = TryNodes(r)
  /\ edges' = TryEdges(r)
  /\ error' = IF Throws(r) THEN TRUE ELSE error
  /\ isLoading' = FALSE
  /\ fetchState' = "done"
  /\ lastOp' = Op("fetchWorkflowData", IF Throws(r) THEN "failed" ELSE "loaded")
  /\ UNCHANGED <<token, bypassAuth, pendingSaves>>
  /\ LoadFrame

\* the rest of fetchWorkflowData once fetch has settled: try, catch, finally
fetchWorkflowData(r) ==
  /\ fetchState = "pending"
  /\ nodes' = IF Throws(r) THEN <<>> ELSE TryNodes(r)
  /\ edges' = IF Throws(r) THEN <<>> ELSE TryEdges(r)
  /\ error' = IF Throws(r) THEN TRUE ELSE error
  /\ isLoading' = FALSE
  /\ fetchState' = "done"
  /\ lastOp' = Op("fetchWorkflowData", IF Throws(r) THEN "failed" ELSE "loaded")
  /\ UNCHANGED <<token, bypassAuth, pendingSaves>>
  /\ LoadFrame

\* the entries of islemTurleri.json
STATIC_WORKFLOW_DEFS ==
  <<[ad |-> "A", aciklama |-> "dA"], [ad |-> "B", aciklama |-> ""]>>

NODES_PER_COLUMN == 10
COLUMN_WIDTH == 280
ROW_HEIGHT == 80

StaticTemplateNodes ==
  [i \in 1..Len(STATIC_WORKFLOW_DEFS) |->
     NewBox("template-" \o ToString(i), 0 - 1, 0 - 1,
            STATIC_WORKFLOW_DEFS[i].ad, STATIC_WORKFLOW_DEFS[i].ad,
            STATIC_WORKFLOW_DEFS[i].aciklama)]

StaticVisibleNodes ==
  [k \in 1..Len(STATIC_WORKFLOW_DEFS) |->
     LET i == k - 1
     IN  NewBox(randomUUID({}, k),
                100 + (i \div NODES_PER_COLUMN) * COLUMN_WIDTH,
                100 + (i % NODES_PER_COLUMN) * ROW_HEIGHT,
                STATIC_WORKFLOW_DEFS[i + 1].ad, STATIC_WORKFLOW_DEFS[i + 1].ad,
                STATIC_WORKFLOW_DEFS[i + 1].aciklama)]

\* the button of the unauthorized page and of the error page (the effect of
\* the first render has run before a click is handled)
loadStaticData ==
  /\ variant = "current"
  /\ fetchState # "mount"
  /\ UnauthorizedPage \/ ErrorPage
  /\ bypassAuth' = TRUE
  /\ nodes' = StaticTemplateNodes \o StaticVisibleNodes
  /\ edges' = <<>>
  /\ error' = FALSE
  /\ isLoading' = FALSE
  /\ lastOp' = Op("loadStaticData", IF UnauthorizedPage THEN "unauthorized"
                                                         ELSE "error")
  /\ UNCHANGED <<token, fetchState, pendingSaves>>
  /\ LoadFrame

\* "Yeni" of the unauthorized page
startNewUnauthorized ==
  /\ variant = "current"
  /\ fetchState # "mount"
  /\ UnauthorizedPage
  /\ bypassAuth' = TRUE
  /\ isLoading' = FALSE
  /\ nodes' = <<>>
  /\ edges' = <<>>
  /\ lastOp' = Op("startNewUnauthorized", "")
  /\ UNCHANGED <<token, error, fetchState, pendingSaves>>
  /\ LoadFrame

\* "Yeni" of the error page
startNewAfterError ==
  /\ variant = "current"
  /\ ErrorPage
  /\ error' = FALSE
  /\ isLoading' = FALSE
  /\ lastOp' = Op("startNewAfterError", "")
  /\ UNCHANGED <<graphVars, token, bypassAuth, fetchState, pendingSaves>>
  /\ LoadFrame

\* "Dinamik (Tekrar Dene)" of the error page: window.location.reload() mounts
\* the component again for the same URL
reload ==
  /\ variant = "current"
  /\ ErrorPage
  /\ nodes' = <<>>
  /\ edges' = <<>>
  /\ contextMenu' = [visible |-> FALSE, flowX |-> 0, flowY |-> 0]
  /\ bypassAuth' = FALSE
  /\ isLoading' = TRUE
  /\ error' = FALSE
  /\ fetchState' = "mount"
  /\ pendingSaves' = 0
  /\ isModalOpen' = FALSE
  /\ editingNodeId' = ""
  /\ formAd' = ""
  /\ formAciklama' = ""
  /\ isJumpLandModalOpen' = FALSE
  /\ jumpLandColorIndex' = 0
  /\ selectedLandId' = ""
  /\ editingNodeType' = ""
  /\ jumpLandLabel' = ""
  /\ pendingReads' = <<>>
  /\ lastImport' = NoImport
  /\ labelInput' = {}
  /\ labelResult' = ""
  /\ lastOp' = Op("reload", "")
  /\ UNCHANGED <<variant, token>>

SaveOutcomes == {"200", "401", "403", "500", "network"}

\* the click on "Kaydet", up to the await of fetch
saveToBackend ==
  /\ variant = "current"
  /\ CanvasFree
  /\ contextMenu.visible
  /\ pendingSaves < MaxPending
  /\ pendingSaves' = IF token THEN pendingSaves + 1 ELSE pendingSaves
  /\ lastOp' = Op("saveToBackend", IF token THEN "sent" ELSE "refused")
  /\ UNCHANGED <<graphVars, token, bypassAuth, isLoading, error, fetchState>>
  /\ LoadFrame

\* a completion that empties the graph when the save has failed
saveCompleted_Rollback(outcome) ==
  /\ pendingSaves > 0
  /\ pendingSaves' = pendingSaves - 1
  /\ contextMenu' = IF outcome = "200" THEN closedMenu ELSE contextMenu
  /\ nodes' = IF outcome = "200" THEN nodes ELSE <<>>
  /\ edges' = IF outcome = "200" THEN edges ELSE <<>>
  /\ lastOp' = Op("saveCompleted", outcome)
  /\ UNCHANGED <<variant, token, bypassAuth, isLoading, error, fetchState,
                 boxModalVars, editingNodeId, jlModalVars, importVars,
                 labelVars>>

\* the rest of saveToBackend once fetch has settled
saveCompleted(outcome) ==
  /\ pendingSaves > 0
  /\ pendingSaves' = pendingSaves - 1
  /\ contextMenu' = IF outcome = "200" THEN closedMenu ELSE contextMenu
  /\ lastOp' = Op("saveCompleted", outcome)
  /\ UNCHANGED <<variant, graphVars, token, bypassAuth, isLoading, error,
                 fetchState, boxModalVars, editingNodeId, jlModalVars,
                 importVars, labelVars>>

InitLoad ==
  /\ variant = "current"
  /\ \E tok \in BOOLEAN : Mount(tok)
  /\ lastOp = Op("none", "")

NextLoad ==
  \/ mountEffect
  \/ \E r \in Responses : fetchWorkflowData(r)
  \/ loadStaticData
  \/ startNewUnauthorized
  \/ startNewAfterError
  \/ reload
  \/ onPaneContextMenu(0, 0)
  \/ \E source, target \in {nodes[k].id : k \in 1..Len(nodes)} :
       onConnect(source, target)
  \/ \E id \in {edges[k].id : k \in 1..Len(edges)} : onEdgeDoubleClick(id)
  \/ saveToBackend
  \/ \E outcome \in SaveOutcomes : saveCompleted(outcome)

SpecLoad == InitLoad /\ [][NextLoad]_vars

(***************************************************************************)
(* Claims about the backend load and save (SpecLoad)                       *)
(***************************************************************************)
\* C18: a load that fails (fetch rejects, the status is not a success, or the
\* body cannot be used) ends with error set, loading false and no nodes and
\* no edges; from the error page "Yeni" and the static dataset end with error
\* cleared and loading false
C18_LoadFailureRecovers ==
  [][/\ lastOp' = Op("fetchWorkflowData", "failed") =>
          error' /\ ~isLoading' /\ nodes' = <<>> /\ edges' = <<>>
     /\ (ErrorPage /\ lastOp'.op \in {"startNewAfterError", "loadStaticData"}) =>
          ~error' /\ ~isLoading']_vars

\* witness of C18: the static dataset was loaded from the error page
C18_Witness ==
  /\ lastOp = Op("loadStaticData", "error")
  /\ token
  /\ ~error
  /\ ~isLoading
  /\ Len(nodes) = 2 * Len(STATIC_WORKFLOW_DEFS)

\* C19: without a token no load request and no save request is ever in
\* flight and the mount effect ends with loading false; isUnauthorized turns
\* false only by "Yeni" of the unauthorized page or by the static dataset;
\* saveToBackend without a token leaves nodes and edges unchanged
C19_NoTokenNoRequest ==
  [][/\ ~token' => (fetchState' # "pending" /\ pendingSaves' = 0)
     /\ (~token /\ lastOp'.op = "mountEffect") => ~isLoading'
     /\ (isUnauthorized /\ ~isUnauthorized') =>
          lastOp'.op \in {"startNewUnauthorized", "loadStaticData"}
     /\ (~token /\ lastOp'.op = "saveToBackend") =>
          (nodes' = nodes /\ edges' = edges)]_vars

\* witness of C19: without a token the user has left the unauthorized page,
\* built a graph and clicked "Kaydet"
C19_Witness ==
  /\ ~token
  /\ lastOp = Op("saveToBackend", "refused")
  /\ Len(nodes) > 0
  /\ Len(edges) > 0
  /\ pendingSaves = 0

\* C20: neither the start of saveToBackend nor its completion, whatever the
\* outcome of the request, changes nodes or edges
C20_SaveKeepsGraph ==
  [][lastOp'.op \in {"saveToBackend", "saveCompleted"} =>
       (nodes' = nodes /\ edges' = edges)]_vars

\* witness of C20: a save of a graph with nodes and edges has failed with a
\* network error
C20_Witness ==
  /\ lastOp = Op("saveCompleted", "network")
  /\ Len(nodes) > 0
  /\ Len(edges) > 0

(***************************************************************************)
(* Claims about what an import leaves behind (SpecImport)                  *)
(***************************************************************************)
\* C21 (as claimed): after a read of a file with a nodes array has completed
\* without error, nodes are the nodes built from the file and edges are the
\* edges built from the file, none when the file has no edges array
C21_ImportReplacesGraph ==
  [][(/\ lastOp'.op = "readerOnload"
      /\ lastImport'.status = "ok"
      /\ lastImport'.doc.hasNodes) =>
       LET doc      == lastImport'.doc
           used     == IdsInUse \cup PendingIds
           allNodes == ImportedNodes(variant, doc, used)
       IN  /\ nodes' = allNodes
           /\ edges' = IF doc.hasEdges
                       THEN ImportedEdges(variant, doc, used, allNodes)
                       ELSE <<>>]_vars

(***************************************************************************)
(* SpecRace: several reads started from the empty editor before any of     *)
(* them completes, completing in any order                                 *)
(***************************************************************************)
\* files whose nodes and edges all carry ids
RaceDocs ==
  {Document(<<NodeA, NodeB>>, <<>>, <<EdgeById>>),
   Document(<<NodeA>>, <<>>, <<>>),
   Document(<<NodeJump, NodeLand>>, <<>>, <<>>),
   NoEdgesArray(Document(<<NodeB>>, <<>>, <<>>))}

InitRace ==
  /\ variant \in Variants
  /\ EmptyEditor

NextRace ==
  \/ /\ lastImport.status = "none"
     /\ \E doc \in RaceDocs : importJsonUpTo(doc, MaxRacing)
  \/ \E i \in 1..MaxRacing : readerOnload(i)

SpecRace == InitRace /\ [][NextRace]_vars

\* C22 (as claimed): when every read started from the empty editor has
\* completed, the graph is the graph one import of the file whose read
\* completed last produces from the empty editor
C22_LastReadWins ==
  (pendingReads = <<>> /\ lastImport.status = "ok") =>
    LET doc      == lastImport.doc
        allNodes == ImportedNodes(variant, doc, {})
    IN  /\ nodes = allNodes
        /\ edges = IF doc.hasEdges
                   THEN ImportedEdges(variant, doc, {}, allNodes)
                   ELSE <<>>

(***************************************************************************)
(* Claims about the Jump/Land pairing (SpecEdit)                           *)
(***************************************************************************)
\* C23 (as claimed): in the current variant a Jump whose landId is set has
\* the colorIndex of the Land with that id
C23_JumpColourMatchesLand ==
  variant = "current" =>
    \A i, j \in 1..Len(nodes) :
      (/\ nodes[i].type = "jump"
       /\ nodes[i].landId # ""
       /\ nodes[j].type = "land"
       /\ nodes[j].id = nodes[i].landId) =>
        nodes[i].colorIndex = nodes[j].colorIndex

(***************************************************************************)
(* exportJson: jumpLinks                                                   *)
(***************************************************************************)
\* landNodes.find((land) => land.label === jump.label): its position in lands,
\* 0 when there is none
MatchingLand(lands, jump) ==
  LET hits == {k \in 1..Len(lands) : lands[k].label = jump.label}
  IN  IF hits = {} THEN 0 ELSE Min(hits)

\* the Jumps that get an entry: in the current variant those whose land field
\* is set, in the label variant those with a Land of the same label
LinkedJumps(v, nds) ==
  LET lands == SelectSeq(nds, IsLand)
  IN  IF v = "current"
      THEN SelectSeq(SelectSeq(nds, IsJump), LAMBDA j : j.landId # "")
      ELSE IF v = "label"
      THEN SelectSeq(SelectSeq(nds, IsJump),
                     LAMBDA j : MatchingLand(lands, j) # 0)
      ELSE <<>>

ExportJumpLinks(v, nds) ==
  LET lands  == SelectSeq(nds, IsLand)
      linked == LinkedJumps(v, nds)
  IN  [k \in 1..Len(linked) |->
         [jumpNodeId |-> linked[k].id,
          landNodeId |-> IF v = "current" THEN linked[k].landId
                         ELSE lands[MatchingLand(lands, linked[k])].id]]

\* a Jump has a counterpart: a Land it names (current variant), a Land of its
\* label (label variant)
HasCounterpart(v, nds, j) ==
  \E k \in 1..Len(nds) :
    /\ nds[k].type = "land"
    /\ IF v = "current" THEN nds[k].id = j.landId ELSE nds[k].label = j.label

\* C24 (as claimed): jumpLinks of the export of the present graph holds one
\* entry per Jump with a counterpart, every jumpNodeId is the id of an
\* exported Jump and every landNodeId the id of an exported Land
C24_JumpLinksResolve ==
  variant # "first" =>
    LET links == ExportJumpLinks(variant, nodes)
        jumps == SelectSeq(nodes, IsJump)
        lands == SelectSeq(nodes, IsLand)
    IN  /\ Len(links) =
             Cardinality({k \in 1..Len(jumps) :
                            HasCounterpart(variant, nodes, jumps[k])})
        /\ \A k \in 1..Len(links) :
             /\ \E i \in 1..Len(jumps) : jumps[i].id = links[k].jumpNodeId
             /\ \E i \in 1..Len(lands) : lands[i].id = links[k].landNodeId

(***************************************************************************)
(* Claims about the label search (SpecLabel)                               *)
(***************************************************************************)
\* the labels of the candidate indices 0..MaxLabelIndex
CandidateLabels == {LabelOfIndex(i) : i \in 0..MaxLabelIndex}

\* C25: distinct candidate indices have distinct labels (0..25 give A..Z, 26
\* gives AA, 27 gives AB), and the search returns the label of a candidate
\* index that is at most the number of existing labels
C25_LabelSearchBounded ==
  /\ Cardinality(CandidateLabels) = MaxLabelIndex + 1
  /\ \A i \in 0..25 : LabelOfIndex(i) = Alphabet[i + 1]
  /\ LabelOfIndex(26) = "AA"
  /\ LabelOfIndex(27) = "AB"
  /\ labelResult # "" =>
       \E i \in 0..Cardinality(labelInput) : labelResult = LabelOfIndex(i)

\* witness of C25: with A..Z and AA taken the search stopped at index 27, one
\* increment per existing label
C25_Witness ==
  /\ labelInput = FirstLabels(27)
  /\ Cardinality(labelInput) = 27
  /\ labelResult = LabelOfIndex(27)

(***************************************************************************)
(* Claims about one import into the empty editor (SpecFile)                *)
(***************************************************************************)
NodeIds(nds) == {nds[k].id : k \in 1..Len(nds)}

\* C26 (as claimed): after an import of the current variant that completed
\* without error every edge has a source and a target that are ids of nodes
\* of the node collection
C26_NoDanglingEdge ==
  (variant = "current" /\ lastImport.status = "ok") =>
    \A k \in 1..Len(edges) :
      edges[k].source \in NodeIds(nodes) /\ edges[k].target \in NodeIds(nodes)

(***************************************************************************)
(* SpecAdd: additions at the position of the context menu, on a canvas     *)
(* that was panned (current variant)                                       *)
(***************************************************************************)
\* results of screenToFlowPosition: the origin, and a point left of and a
\* point above the origin of the flow
FlowPositions == {<<0, 0>>, <<0 - 120, 80>>, <<80, 0 - 40>>}

\* a file that holds one template
TemplateDoc == Document(<<NodeAnonymous>>, <<>>, <<>>)

InitAdd ==
  /\ variant = "current"
  /\ EmptyEditor

NextAdd ==
  \/ \E p \in FlowPositions : onPaneContextMenu(p[1], p[2])
  \/ addNewEmptyNode(MaxEditNodes)
  \/ addNodeFromTemplate(MaxEditNodes)
  \/ addJumpNode(MaxEditNodes)
  \/ addLandNode(MaxEditNodes)
  \/ /\ lastImport.status = "none"
     /\ pendingReads = <<>>
     /\ importJson(TemplateDoc)
  \/ readerOnload(1)

SpecAdd == InitAdd /\ [][NextAdd]_vars

\* C27 (as claimed): the node an add handler has appended is a member of the
\* visible-node list after the addition, wherever the context menu was opened
C27_AddedNodeVisible ==
  [][lastOp'.op = "add" => InList(visibleNodes', nodes'[Len(nodes')])]_vars

(***************************************************************************)
(* The body saveToBackend posts, and what a load makes of it               *)
(***************************************************************************)
\* one record of placedNodesData
PlacedNode(n) ==
  IF n.type = "jump" \/ n.type = "land"
  THEN DBNode(n.id, n.type, n.x, n.y, "", "", n.label, n.colorIndex)
  ELSE DBNode(n.id, "box", n.x, n.y, NodeAd(n), n.aciklama, "", 0)

placedNodesData(nds) == [k \in 1..Len(nds) |-> PlacedNode(nds[k])]

edgesData(eds, used) ==
  [k \in 1..Len(eds) |->
     NewEdge(IF eds[k].id # "" THEN eds[k].id ELSE randomUUID(used, k),
             eds[k].source, eds[k].target)]

\* the nodes and edges fetchWorkflowData sets for a body with these arrays
LoadedNodes(dbNodes) ==
  [k \in 1..Len(dbNodes) |-> convertDBNodeToReactFlowNode(dbNodes[k])]

LoadedEdges(dbEdges) ==
  [k \in 1..Len(dbEdges) |->
     NewEdge(dbEdges[k].id, dbEdges[k].source, dbEdges[k].target)]

\* C28 (as claimed): loading the body saveToBackend posts for the present
\* graph gives the same ids, kinds, positions, process-node names and
\* descriptions, colorIndex values and landId references, and the same edges
C28_SaveLoadRoundTrip ==
  variant = "current" =>
    LET loaded == LoadedNodes(placedNodesData(nodes))
    IN  /\ Len(loaded) = Len(nodes)
        /\ \A k \in 1..Len(nodes) :
             /\ loaded[k].id = nodes[k].id
             /\ loaded[k].type = nodes[k].type
             /\ loaded[k].x = nodes[k].x
             /\ loaded[k].y = nodes[k].y
             /\ nodes[k].type = "box" =>
                  /\ NodeAd(loaded[k]) = NodeAd(nodes[k])
                  /\ loaded[k].aciklama = nodes[k].aciklama
             /\ nodes[k].type # "box" =>
                  /\ loaded[k].colorIndex = nodes[k].colorIndex
                  /\ loaded[k].landId = nodes[k].landId
        /\ LoadedEdges(edgesData(edges, IdsInUse)) = edges

(***************************************************************************)
(* Claims about the Land select of the Jump dialog (SpecEdit)              *)
(***************************************************************************)
\* C29 (as claimed): while the dialog is open for a Jump whose landId names a
\* Land of the graph, that Land is among the selectable Lands
C29_OriginalLandSelectable ==
  (variant = "current" /\ isJumpLandModalOpen /\ editingNodeType = "jump") =>
    \A i, j \in 1..Len(nodes) :
      (/\ nodes[i].id = editingNodeId
       /\ nodes[i].type = "jump"
       /\ nodes[i].landId # ""
       /\ nodes[j].type = "land"
       /\ nodes[j].id = nodes[i].landId) =>
        \E k \in 1..Len(getAvailableLandNodes) :
          getAvailableLandNodes[k].id = nodes[i].landId

(***************************************************************************)
(* SpecLabelEdit: adding and editing Jump and Land nodes in the label      *)
(* variant, from the empty graph                                           *)
(***************************************************************************)
InitLabelEdit ==
  /\ variant = "label"
  /\ EmptyEditor

NextLabelEdit ==
  \/ onPaneContextMenu(0, 0)
  \/ addJumpNode(MaxEditNodes)
  \/ addLandNode(MaxEditNodes)
  \/ \E i \in 1..MaxEditNodes : onNodeDoubleClick(i)
  \/ \E value \in TypedLabels : setJumpLandLabel(value)
  \/ \E label \in ExistingLabels(nodes) : selectExistingLabel(label)
  \/ \E index \in ColourChoices : setJumpLandColorIndex(index)
  \/ closeJumpLandModal
  \/ saveJumpLandNode

SpecLabelEdit == InitLabelEdit /\ [][NextLabelEdit]_vars

\* C30: in the label variant any two Jump/Land nodes with the same label have
\* the same colorIndex
C30_SameLabelSameColour ==
  variant = "label" =>
    \A i, j \in 1..Len(nodes) :
      (IsJumpLand(nodes[i]) /\ IsJumpLand(nodes[j])
         /\ nodes[i].label = nodes[j].label) =>
        nodes[i].colorIndex = nodes[j].colorIndex

\* witness of C30: a save has given a node the label of another node together
\* with a colour picked in the palette, and both nodes carry that colour
C30_Witness ==
  /\ variant = "label"
  /\ lastOp.op = "saveJumpLandNode"
  /\ \E i, j \in 1..Len(nodes) :
       /\ i # j
       /\ nodes[i].id = lastOp.id
       /\ IsJumpLand(nodes[j])
       /\ nodes[i].label = nodes[j].label
       /\ nodes[i].colorIndex = PaletteSize - 1
       /\ nodes[j].colorIndex = PaletteSize - 1

====
